---- MODULE Spec2Model ----
(***************************************************************************)
(* Model of the Zulip channel monitor (src/src/zulip/monitor.ts): the      *)
(* process-wide dedup cache, the policy gate of handleMessage, the         *)
(* per-message send chain and the reconnect loop of monitorZulipProvider.  *)
(*                                                                         *)
(* Strings whose structure the code inspects (dedupe keys, allow-list      *)
(* entries, message text) are tuples of one-character strings or of        *)
(* tokens, so that concatenation, prefix stripping and case folding are    *)
(* computed, not assumed.  Time is in milliseconds.                        *)
(***************************************************************************)
EXTENDS Integers, Sequences, FiniteSets, TLC

\* ------------------------------------------------------------------------
\* Bounds of the model (not program constants).
\* ------------------------------------------------------------------------
MaxMsgId == 2
MaxTicks == 3
MaxFails == 7      \* consecutive failures of the reconnect loop
MaxQueues == 2     \* queue ids the server hands out
MaxEventId == 2    \* event ids of one queue
MaxBatch == 2      \* events in one poll result
MaxPayloads == 2   \* reply payloads handed to deliver for one message
MaxChunks == 2     \* chunks of one payload
MaxNameLen == 2    \* characters of a stream name and of a topic
MaxTextLen == 3    \* characters of a reply payload

\* ------------------------------------------------------------------------
\* Program constants.
\* ------------------------------------------------------------------------
\* monitor.ts:34  const RECENT_MESSAGE_TTL_MS = 5 * 60_000;
RECENT_MESSAGE_TTL_MS == 5 * 60000
\* monitor.ts:35  const RECENT_MAX = 2000;  scaled down to 2 so that the
\* sweep threshold is crossed inside the bounds: every comparison against it
\* is the code's (size > RECENT_MAX).
RECENT_MAX == 2

\* One step of the clock: half the TTL, so that ages below, equal to and
\* above the TTL all occur.
TickMs == RECENT_MESSAGE_TTL_MS \div 2

\* monitor.ts:376, 384  let backoffMs = 1000; ... backoffMs = 1000;
BACKOFF_FLOOR_MS == 1000
\* monitor.ts:377  const MAX_BACKOFF_MS = 30000;
MAX_BACKOFF_MS == 30000

NoTime == 0 - 1

VARIABLES
  now,        \* Date.now()
  recentIds,  \* monitor.ts:36  Map<string, number>: key -> first-seen time
  dd,         \* history of the dedupeCheck calls on one watched message
  \* the reconnect loop of monitorZulipProvider (monitor.ts:375-411)
  lpc,        \* the await the loop is suspended at, or "stopped"
  aborted,    \* opts.abortSignal.aborted
  backoffMs,  \* monitor.ts:376
  queueId,    \* queue.queue_id of the current registration (0: none yet)
  lastEventId,\* monitor.ts:382
  batch,      \* the events of the current poll result not yet finished
  connected,  \* the last `connected` value written to the status sink:
              \* "up" (383: connected true, lastError null), "down" (403-407:
              \* connected false, lastError the error), "unset" (none yet)
  waits,      \* the backoff waits started since the last successful registration
  lh,         \* history of the loop: the poll result being processed and
              \* what the loop did with it, the calls started after the
              \* abort, and where the loop was when the signal was set
  \* handleMessage and its collaborators (monitor.ts:118-372)
  cfg,        \* account.config: dmPolicy, allowFrom, autoReplyStreams
  store,      \* the pairing store: allowFrom entries and pending requests
  hm,         \* the handleMessage invocation in progress, or the last one
  pairReplies,\* per sender id: pairing-instruction replies submitted to
              \* dm:<id> since the sender's pending request was created
  \* reply dispatch of the inbound messages (monitor.ts:333-372)
  dphase,     \* per inbound message: where its dispatchReplyFromConfig call is
  pl,         \* per inbound message: the payloads handed to deliver, in order
  typing,     \* the typing-start call of the first inbound message's reply
  pf          \* one evaluation of a function of the program: its input, the
              \* intermediate value and the result (see the Spec of each)

dedupeVars == <<now, recentIds, dd>>

policyVars == <<cfg, store, hm, pairReplies>>

loopVars == <<lpc, aborted, backoffMs, queueId, lastEventId, batch, connected, waits, lh>>

dispatchVars == <<dphase, pl, typing>>

notDedupeVars == <<loopVars, policyVars, dispatchVars, pf>>

notLoopVars == <<dedupeVars, policyVars, dispatchVars, pf>>

notPolicyVars == <<now, dd, loopVars, dispatchVars, pf>>

notDispatchVars == <<dedupeVars, loopVars, policyVars, pf>>

notPfVars == <<dedupeVars, loopVars, policyVars, dispatchVars>>

vars == <<now, recentIds, dd, lpc, aborted, backoffMs, queueId, lastEventId,
          batch, connected, waits, lh, cfg, store, hm, pairReplies, dphase, pl,
          typing, pf>>

\* ------------------------------------------------------------------------
\* Strings.
\* ------------------------------------------------------------------------
Digit(d) == CASE d = 0 -> "0" [] d = 1 -> "1" [] d = 2 -> "2" [] d = 3 -> "3"
              [] d = 4 -> "4" [] d = 5 -> "5" [] d = 6 -> "6" [] d = 7 -> "7"
              [] d = 8 -> "8" [] OTHER -> "9"

RECURSIVE NatToStr(_)
\* String(n) for a non-negative integer: its decimal digits.
NatToStr(n) == IF n < 10 THEN <<Digit(n)>>
               ELSE NatToStr(n \div 10) \o <<Digit(n % 10)>>

\* The account ids of the process.  "a" and "a:1" differ only in a suffix
\* that looks like the separator and a message id.
AccountIds == { <<"a">>, <<"a", ":", "1">> }

MsgIds == 1..MaxMsgId

\* ------------------------------------------------------------------------
\* String operations of the policy code.
\* ------------------------------------------------------------------------
\* String.prototype.toLowerCase on one character (the letters that occur)
LowerChar(c) ==
  CASE c = "A" -> "a" [] c = "B" -> "b" [] c = "E" -> "e" [] c = "G" -> "g"
    [] c = "I" -> "i" [] c = "L" -> "l" [] c = "O" -> "o" [] c = "P" -> "p"
    [] c = "R" -> "r" [] c = "S" -> "s" [] c = "U" -> "u" [] c = "Z" -> "z"
    [] OTHER -> c

ToLower(str) == [i \in 1..Len(str) |-> LowerChar(str[i])]

RECURSIVE TrimLeft(_)
TrimLeft(str) ==
  IF str # << >> /\ Head(str) = " " THEN TrimLeft(Tail(str)) ELSE str

RECURSIVE TrimRight(_)
TrimRight(str) ==
  IF str # << >> /\ str[Len(str)] = " "
    THEN TrimRight(SubSeq(str, 1, Len(str) - 1)) ELSE str

\* String.prototype.trim
Trim(str) == TrimRight(TrimLeft(str))

StartsWithCI(str, pfx) ==
  /\ Len(str) >= Len(pfx)
  /\ ToLower(SubSeq(str, 1, Len(pfx))) = pfx

\* monitor.ts:52  .replace(/^(zulip|user):/i, "")
StripAllowPrefix(str) ==
  IF StartsWithCI(str, <<"z", "u", "l", "i", "p", ":">>)
    THEN SubSeq(str, 7, Len(str))
  ELSE IF StartsWithCI(str, <<"u", "s", "e", "r", ":">>)
    THEN SubSeq(str, 6, Len(str))
  ELSE str

\* monitor.ts:51-53  normalizeAllowEntry
normalizeAllowEntry(entry) == ToLower(StripAllowPrefix(Trim(entry)))

\* monitor.ts:55-57  normalizeAllowList: normalized, empty strings dropped,
\* duplicates dropped (the code only asks the result for its length and for
\* membership, so it is a set here)
normalizeAllowList(entries) ==
  {normalizeAllowEntry(e) : e \in entries} \ {<< >>}

isSenderAllowed_IdOnly(sender, allowFrom) ==
  /\ allowFrom # {}
  /\ \/ <<"*">> \in allowFrom
     \/ normalizeAllowEntry(NatToStr(sender.id)) \in allowFrom

isSenderAllowed_NoNormalize(sender, allowFrom) ==
  IF allowFrom = {} THEN FALSE
  ELSE IF <<"*">> \in allowFrom THEN TRUE
  ELSE \E e \in allowFrom :
         \/ e = NatToStr(sender.id)
         \/ (sender.email # << >> /\ e = sender.email)
         \/ (sender.name # << >> /\ e = sender.name)

\* monitor.ts:59-71  isSenderAllowed
isSenderAllowed(sender, allowFrom) ==
  IF allowFrom = {} THEN FALSE
  ELSE IF <<"*">> \in allowFrom THEN TRUE
  ELSE LET idNorm == normalizeAllowEntry(NatToStr(sender.id))
           emailNorm == IF sender.email # << >>
                          THEN normalizeAllowEntry(sender.email) ELSE << >>
           nameNorm == IF sender.name # << >>
                         THEN normalizeAllowEntry(sender.name) ELSE << >>
       IN  \E e \in allowFrom :
             \/ e = idNorm
             \/ (emailNorm # << >> /\ e = emailNorm)
             \/ (nameNorm # << >> /\ e = nameNorm)

\* Message text is a tuple of tokens: "w" a word, " " one whitespace
\* character, "@B" the markup @**<botName>** as the profile spells the name,
\* "@b" the same markup in another letter case, "p" a word that a configured
\* generic mention pattern matches.
IsMentionToken(t) == t = "@B" \/ t = "@b"

\* monitor.ts:81-86  wasBotMentioned: /@\*\*<name>\*\*/i.test(text)
wasBotMentioned(text) == \E i \in 1..Len(text) : IsMentionToken(text[i])

\* monitor.ts:151-152  matchesMentionPatterns(rawText, buildMentionRegexes(cfg))
matchesMentionPatterns(text) == \E i \in 1..Len(text) : text[i] = "p"

\* monitor.ts:78  .replace(re, " ") with the flags "gi"
ReplaceMentions(text) ==
  [i \in 1..Len(text) |-> IF IsMentionToken(text[i]) THEN " " ELSE text[i]]

RECURSIVE CollapseSpaces(_)
\* monitor.ts:78  .replace(/\s+/g, " ")
CollapseSpaces(text) ==
  IF Len(text) < 2 THEN text
  ELSE IF text[1] = " " /\ text[2] = " " THEN CollapseSpaces(Tail(text))
  ELSE <<Head(text)>> \o CollapseSpaces(Tail(text))

\* monitor.ts:73-79  stripMention (the bot's profile always has a name)
stripMention(text) == Trim(CollapseSpaces(ReplaceMentions(text)))

\* ------------------------------------------------------------------------
\* Dedup cache  (monitor.ts:34-49, 133)
\* ------------------------------------------------------------------------
dedupeKey_NoAccount(accountId, id) == NatToStr(id)

\* monitor.ts:133  `${account.accountId}:${msg.id}`
dedupeKey(accountId, id) == accountId \o <<":">> \o NatToStr(id)

Restrict(f, S) == [k \in S |-> f[k]]

Put(f, k, v) == [x \in DOMAIN f \cup {k} |-> IF x = k THEN v ELSE f[x]]

Expired_AtTtl(t, at) == at - t >= RECENT_MESSAGE_TTL_MS

\* monitor.ts:43  now - t > RECENT_MESSAGE_TTL_MS
Expired(t, at) == at - t > RECENT_MESSAGE_TTL_MS

DedupeSweep_NoThreshold(ids, at) ==
  Restrict(ids, {k \in DOMAIN ids : ~Expired(ids[k], at)})

\* monitor.ts:41-45  the cleanup of old entries, run at the start of a call
DedupeSweep(ids, at) ==
  IF Cardinality(DOMAIN ids) > RECENT_MAX
    THEN Restrict(ids, {k \in DOMAIN ids : ~Expired(ids[k], at)})
    ELSE ids

\* monitor.ts:38-49  dedupeCheck: the returned flag and the cache afterwards
dedupeCheck(ids, key, at) ==
  LET swept == DedupeSweep(ids, at)
  IN  IF key \in DOMAIN swept
        THEN [ret |-> TRUE, ids |-> swept]
        ELSE [ret |-> FALSE, ids |-> Put(swept, key, at)]

\* lh, the history of the loop:
\*   polled     the poll result being processed (empty: none); once every
\*              event of it is done, with the event ids blanked
\*   q          the queue id that poll was made with
\*   entered    the positions in polled of the events whose message was
\*              handed to handleMessage, in the order of the calls
\*   threw      the positions whose handleMessage call threw
\*   active     the handleMessage calls that have not ended
\*   late       the calls ("registering", "polling") started when the signal
\*              was already set
\*   abortedAt  the await the loop was suspended at when the signal was set
\*   enteredAtAbort  the length of entered at that moment
\*   maxSeen    the largest of the last_event_id of the current registration
\*              and the ids of the events received on its queue (0: no queue)
\*   failed     for each wait in waits, the call whose failure led to it
\*              ("registering" or "polling")
LhIdle ==
  [polled |-> << >>, q |-> 0, entered |-> << >>, threw |-> {}, active |-> 0,
   late |-> {}, abortedAt |-> "never", enteredAtAbort |-> 0, maxSeen |-> 0,
   failed |-> << >>]

\* The loop before monitorZulipProvider is called.
LoopIdle ==
  /\ lpc = "idle" /\ aborted = FALSE /\ backoffMs = BACKOFF_FLOOR_MS
  /\ queueId = 0 /\ lastEventId = 0 /\ batch = << >>
  /\ connected = "unset" /\ waits = << >>
  /\ lh = LhIdle

\* ------------------------------------------------------------------------
\* Accounts, senders, messages and configuration of the policy gate.
\* ------------------------------------------------------------------------
\* monitor.ts:114  profile.user_id
BotUserId == 1

Bot == [id |-> BotUserId, email |-> <<"b", "@">>, name |-> <<"B", "o", "t">>]

Al == [id |-> 2, email |-> <<"a", "@">>, name |-> <<"A", "l">>]

\* client.ts ZulipMessage: sender_id, sender_email, sender_full_name
Senders == {Bot, Al}

UserIds == {x.id : x \in Senders}

SenderOf(id) == CHOOSE x \in Senders : x.id = id

\* account.config.allowFrom as written in the configuration file: empty,
\* the wildcard, an entry that names Al (by display name, with a prefix and
\* in capitals) beside a blank one, and an entry that names nobody here
ConfigAllowFroms ==
  { {}, {<<"*">>}, {<<"U", "S", "E", "R", ":", "A", "L">>, <<" ">>},
    {<<"z", "u", "l", "i", "p", ":", "9">>} }

\* (account.config as any).autoReplyStreams
ConfigAutoReplyStreams == { {}, {<<"G", "e">>} }

DmPolicies == {"open", "pairing", "disabled"}

Configs ==
  [dmPolicy : DmPolicies, allowFrom : ConfigAllowFroms,
   autoReplyStreams : ConfigAutoReplyStreams]

\* message text, see IsMentionToken
Contents ==
  { <<"w">>, <<"@B", " ">>, <<" ", "@b", " ", "w">>, <<"p", " ", "w">> }

\* display_recipient of a stream message
StreamNames == { <<"g", "e">>, <<"d">> }

\* client.ts ZulipMessage, the fields handleMessage reads
Messages ==
  [id : 1..MaxMsgId + 1, sender : UserIds, type : {"private"}, stream : {<< >>},
   content : Contents]
  \cup
  [id : 1..MaxMsgId + 1, sender : UserIds, type : {"stream"}, stream : StreamNames,
   content : Contents]

NoMsg == [id |-> 0, sender |-> 0, type |-> "none", stream |-> << >>, content |-> << >>]

\* The account whose monitor handles the messages of the policy model.
PolicyAccountId == <<"a">>

HmIdle ==
  [pc |-> "idle", msg |-> NoMsg, drop |-> "", readOk |-> TRUE, wasAllowed |-> FALSE,
   streamAllowFrom |-> {}, effectiveAllowFrom |-> {}, fx |-> {},
   to |-> << >>, log |-> << >>, CommandAuthorized |-> FALSE, sent |-> "none"]

\* handleMessage and the stores before the monitor is started.
PolicyIdle ==
  /\ cfg = [dmPolicy |-> "pairing", allowFrom |-> {}, autoReplyStreams |-> {}]
  /\ store = [allowFrom |-> {}, pending |-> {}]
  /\ hm = HmIdle
  /\ pairReplies = [u \in UserIds |-> 0]

\* The two inbound messages m1, m2 whose replies the dispatch model follows,
\* in the order of their events; both replies go to the same destination.
Dispatches == {1, 2}

\* No reply dispatch has begun.
DispatchIdle ==
  /\ dphase = [d \in Dispatches |-> "none"]
  /\ pl = [d \in Dispatches |-> << >>]
  /\ typing = "none"

\* No function evaluation is followed.
PfIdle == pf = [op |-> "none"]

\* ------------------------------------------------------------------------
\* Specification of the dedup cache: messages of any account arrive in any
\* order at any time; each arrival runs the first lines of handleMessage.
\* dd follows one message (account, id), chosen freely in Init:
\*   callAt  time of the latest dedupeCheck call for it (NoTime: none yet)
\*   recAt   time of the latest call for it that recorded it (returned false)
\*   last    the latest call for it: what it returned, when, and callAt and
\*           recAt as they were before that call
\* ------------------------------------------------------------------------
NoCall == [ret |-> FALSE, at |-> NoTime, prevCallAt |-> NoTime, prevRecAt |-> NoTime]

DdInit(w) == [watch |-> w, callAt |-> NoTime, recAt |-> NoTime, last |-> NoCall]

DdNote(d, a, m, ret, at) ==
  IF <<a, m>> # d.watch THEN d
  ELSE [d EXCEPT !.callAt = at,
                 !.recAt = IF ret THEN @ ELSE at,
                 !.last = [ret |-> ret, at |-> at,
                           prevCallAt |-> d.callAt, prevRecAt |-> d.recAt]]

InitDedupe ==
  /\ DispatchIdle
  /\ PfIdle
  /\ now = 0
  /\ recentIds = << >>
  /\ \E w \in AccountIds \X MsgIds : dd = DdInit(w)
  /\ LoopIdle
  /\ PolicyIdle

\* monitor.ts:133-134  a message of account a with id m reaches the dedup check
DedupeCall(a, m) ==
  LET r == dedupeCheck(recentIds, dedupeKey(a, m), now)
  IN  /\ recentIds' = r.ids
      /\ dd' = DdNote(dd, a, m, r.ret, now)
      /\ UNCHANGED now
      /\ UNCHANGED notDedupeVars

\* monitor.ts:39  Date.now() advances between calls
Tick ==
  /\ now < MaxTicks * TickMs
  /\ now' = now + TickMs
  /\ UNCHANGED <<recentIds, dd>>
  /\ UNCHANGED notDedupeVars

NextDedupe ==
  \/ \E a \in AccountIds, m \in MsgIds : DedupeCall(a, m)
  \/ Tick

SpecDedupe == InitDedupe /\ [][NextDedupe]_vars

\* C6 as stated: whenever dedupeCheck(k) is called at t' and the previous call
\* for k was at t with t' - t <= TTL, the call at t' returns true.
C6_SecondCallWithinTtlOfAnyCall ==
  (dd.last.at # NoTime /\ dd.last.prevCallAt # NoTime
     /\ dd.last.at - dd.last.prevCallAt <= RECENT_MESSAGE_TTL_MS)
  => dd.last.ret

\* C6 amended: whenever dedupeCheck(k) is called at t' and k was last
\* recorded (a call that returned false) at t with t' - t <= TTL, the call at
\* t' returns true, whatever calls and sweeps happened in between.
C6_SecondCallWithinTtlOfRecording ==
  (dd.last.at # NoTime /\ dd.last.prevRecAt # NoTime
     /\ dd.last.at - dd.last.prevRecAt <= RECENT_MESSAGE_TTL_MS)
  => dd.last.ret

\* C6 witness: the watched key was recorded, a sweep ran with the cache over
\* its high-water mark, and a later call exactly TTL after the recording
\* found the key.
C6_Witness ==
  /\ dd.last.ret
  /\ dd.last.prevRecAt # NoTime
  /\ dd.last.at - dd.last.prevRecAt = RECENT_MESSAGE_TTL_MS
  /\ Cardinality(DOMAIN recentIds) > RECENT_MAX

\* C7: dedupeCheck returns true for the key of (account, id) only if a
\* message with that account and that id was checked before, whatever other
\* accounts put into the shared cache.
C7_NoFalsePositive ==
  (dd.last.at # NoTime /\ dd.last.ret) => dd.last.prevCallAt # NoTime

\* C7 witness: the watched message is checked for the first time and is
\* found new while the other account's message with the same id is cached.
C7_Witness ==
  /\ dd.last.at # NoTime
  /\ dd.last.prevCallAt = NoTime
  /\ ~dd.last.ret
  /\ \E a \in AccountIds : a # dd.watch[1]
        /\ dedupeKey(a, dd.watch[2]) \in DOMAIN recentIds
        /\ recentIds[dedupeKey(a, dd.watch[2])] < dd.last.at

\* C27 as stated: the number of entries of the cache never exceeds a fixed
\* bound derived from the high-water mark: the sweep runs before the key is
\* added once the size is above RECENT_MAX, so a bounded cache would never
\* hold more than RECENT_MAX + 1 entries.
C27_CacheBounded == Cardinality(DOMAIN recentIds) <= RECENT_MAX + 1

\* C28: a dedupeCheck call removes an entry only if at the start of the
\* call the cache holds more than RECENT_MAX entries and the entry is older
\* than the TTL (the checked key, when it is removed so, is recorded anew
\* with the time of the call); every other entry stays with its first-seen
\* time, also the entry of the checked key when it is found; at most one
\* key is recorded, with the time of the call; the clock alone changes
\* nothing.
C28_SweepOnlyExpiredAboveMark ==
  [][
    /\ \A k \in DOMAIN recentIds :
          IF k \in DOMAIN recentIds' /\ recentIds'[k] = recentIds[k]
            THEN TRUE
            ELSE /\ Cardinality(DOMAIN recentIds) > RECENT_MAX
                 /\ now - recentIds[k] > RECENT_MESSAGE_TTL_MS
    /\ LET recorded == {j \in DOMAIN recentIds' :
                          j \notin DOMAIN recentIds \/ recentIds'[j] # recentIds[j]}
       IN  /\ Cardinality(recorded) <= 1
           /\ \A j \in recorded : recentIds'[j] = now
    /\ now' # now => recentIds' = recentIds
  ]_vars

\* C28 witness: the watched key, recorded more than a TTL ago, was removed
\* by the sweep of the call that checked it again and was recorded anew,
\* while a younger entry of another key stayed with its first-seen time.
C28_Witness ==
  /\ ~dd.last.ret /\ dd.last.at = now
  /\ dd.last.prevRecAt # NoTime
  /\ dd.last.at - dd.last.prevRecAt > RECENT_MESSAGE_TTL_MS
  /\ \E k \in DOMAIN recentIds :
        /\ recentIds[k] < now
        /\ now - recentIds[k] <= RECENT_MESSAGE_TTL_MS
  /\ Cardinality(DOMAIN recentIds) > RECENT_MAX

\* ------------------------------------------------------------------------
\* Reconnect loop  (monitor.ts:375-411)
\* The loop is suspended at one of its awaits: "registering" (381),
\* "polling" (387), "handling" (392), "backoff" (408); the code between two
\* awaits runs in one step.  handleMessage is taken here as a call that
\* ends, by returning or by a throw caught at 393-395.
\* ------------------------------------------------------------------------
Min(a, b) == IF a < b THEN a ELSE b

QueueIds == 1..MaxQueues

EventIds == 0..MaxEventId

\* client.ts ZulipEvent: {type, id, message?}
Events == [id : EventIds, type : {"message", "heartbeat"}]

Batches == UNION { [1..n -> Events] : n \in 0..MaxBatch }

NextBackoff_NoCeiling(b) == b * 2

\* monitor.ts:409  Math.min(backoffMs * 2, MAX_BACKOFF_MS)
NextBackoff(b) == Min(b * 2, MAX_BACKOFF_MS)

RECURSIVE RunBatch_NewestFirst(_, _)
RunBatch_NewestFirst(evs, last) ==
  IF evs = << >> THEN [batch |-> << >>, last |-> last]
  ELSE LET e == evs[Len(evs)]
           rest == SubSeq(evs, 1, Len(evs) - 1)
           newLast == IF e.id > last THEN e.id ELSE last
       IN  IF e.type = "message"
             THEN [batch |-> <<e>> \o rest, last |-> newLast]
             ELSE RunBatch_NewestFirst(rest, newLast)

RECURSIVE RunBatch_NoCompare(_, _)
RunBatch_NoCompare(evs, last) ==
  IF evs = << >> THEN [batch |-> << >>, last |-> last]
  ELSE LET e == Head(evs)
       IN  IF e.type = "message"
             THEN [batch |-> evs, last |-> e.id]
             ELSE RunBatch_NoCompare(Tail(evs), e.id)

RECURSIVE RunBatch(_, _)
\* monitor.ts:388-396  the for loop over the events, up to the next await of
\* handleMessage: advances the last-seen id over every event it passes and
\* stops on a message event (left at the head of the result) or at the end.
RunBatch(evs, last) ==
  IF evs = << >> THEN [batch |-> << >>, last |-> last]
  ELSE LET e == Head(evs)
           newLast == IF e.id > last THEN e.id ELSE last
       IN  IF e.type = "message"
             THEN [batch |-> evs, last |-> newLast]
             ELSE RunBatch(Tail(evs), newLast)

OuterLoopTop_NoCheck == "registering"

\* monitor.ts:379  while (!opts.abortSignal?.aborted) { ... register
OuterLoopTop == IF aborted THEN "stopped" ELSE "registering"

\* monitor.ts:386, then 379 when the inner loop is left
InnerLoopTop == IF aborted THEN "stopped" ELSE "polling"

\* history: the loop goes on to pc; a registration or a poll that is started
\* when the signal is already set is noted
Started(h, pc) ==
  IF pc \in {"registering", "polling"} /\ aborted
    THEN [h EXCEPT !.late = @ \cup {pc}] ELSE h

\* history: the largest of m and the ids of the events evs
MaxSeen(evs, m) ==
  LET ids == {m} \cup {evs[i].id : i \in 1..Len(evs)}
  IN  CHOOSE x \in ids : \A y \in ids : x >= y

\* history: the poll result that was being processed is let go
Forget(h) ==
  [h EXCEPT !.polled = << >>, !.q = 0, !.entered = << >>, !.threw = {},
            !.active = 0]

\* history: of a poll result that is done only the kinds of its events are
\* kept
Kinds(evs) == [i \in 1..Len(evs) |-> [id |-> 0, type |-> evs[i].type]]

\* monitor.ts:388-398  continue the batch: handleMessage is called with the
\* next message event; at the end of the batch, the next poll
ContinueBatch(evs, last, h) ==
  LET r == RunBatch(evs, last)
      pc == IF r.batch # << >> THEN "handling" ELSE InnerLoopTop
      at == Len(h.polled) - Len(r.batch) + 1
  IN  /\ batch' = r.batch
      /\ lastEventId' = r.last
      /\ lpc' = pc
      /\ lh' = IF pc = "handling"
                 THEN [h EXCEPT !.entered = Append(@, at), !.active = @ + 1]
                 ELSE Started([h EXCEPT !.polled = Kinds(@)], pc)

Catch_NoStatus(h) ==
  /\ queueId' = 0 /\ lastEventId' = 0 /\ batch' = << >>
  /\ lh' = [h EXCEPT !.maxSeen = 0,
                     !.failed = IF aborted THEN @ ELSE Append(@, lpc)]
  /\ IF aborted
       THEN /\ lpc' = "stopped"
            /\ UNCHANGED waits
       ELSE /\ waits' = Append(waits, backoffMs)
            /\ lpc' = "backoff"
  /\ UNCHANGED <<aborted, backoffMs, connected>>

Catch_NoAbortCheck(h) ==
  /\ queueId' = 0 /\ lastEventId' = 0 /\ batch' = << >>
  /\ lh' = [h EXCEPT !.maxSeen = 0, !.failed = Append(@, lpc)]
  /\ connected' = "down"
  /\ waits' = Append(waits, backoffMs)
  /\ lpc' = "backoff"
  /\ UNCHANGED <<aborted, backoffMs>>

\* monitor.ts:399-410  the catch branch, up to the await of the timer
Catch(h) ==
  /\ queueId' = 0 /\ lastEventId' = 0 /\ batch' = << >>
  /\ lh' = [h EXCEPT !.maxSeen = 0,
                     !.failed = IF aborted THEN @ ELSE Append(@, lpc)]
  /\ IF aborted
       THEN /\ lpc' = "stopped"
            /\ UNCHANGED <<connected, waits>>
       ELSE /\ connected' = "down"
            /\ waits' = Append(waits, backoffMs)
            /\ lpc' = "backoff"
  /\ UNCHANGED <<aborted, backoffMs>>

\* monitor.ts:97-116, 379  monitorZulipProvider is called and enters the loop
LoopStart ==
  /\ lpc = "idle"
  /\ lpc' = OuterLoopTop
  /\ lh' = Started(lh, OuterLoopTop)
  /\ UNCHANGED <<aborted, backoffMs, queueId, lastEventId, batch, connected, waits>>
  /\ UNCHANGED notLoopVars

RegisterOk_NoReset(q, last) ==
  /\ lpc = "registering"
  /\ queueId' = q
  /\ lastEventId' = last
  /\ connected' = "up"
  /\ waits' = << >>
  /\ lpc' = InnerLoopTop
  /\ lh' = Started([Forget(lh) EXCEPT !.maxSeen = last, !.failed = << >>],
                   InnerLoopTop)
  /\ UNCHANGED <<aborted, batch, backoffMs>>
  /\ UNCHANGED notLoopVars

\* monitor.ts:381-387  registerZulipEventQueue resolves (it is given no
\* abort signal, so it resolves also after the signal was set)
RegisterOk(q, last) ==
  /\ lpc = "registering"
  /\ queueId' = q
  /\ lastEventId' = last
  /\ connected' = "up"
  /\ backoffMs' = BACKOFF_FLOOR_MS
  /\ waits' = << >>
  /\ lpc' = InnerLoopTop
  /\ lh' = Started([Forget(lh) EXCEPT !.maxSeen = last, !.failed = << >>],
                   InnerLoopTop)
  /\ UNCHANGED <<aborted, batch>>
  /\ UNCHANGED notLoopVars

\* monitor.ts:381, 399-408  registerZulipEventQueue rejects
RegisterFail ==
  /\ lpc = "registering"
  /\ aborted \/ Len(waits) < MaxFails
  /\ Catch(Forget(lh))
  /\ UNCHANGED notLoopVars

PollOk_EmptyIsFailure(evs) ==
  /\ lpc = "polling"
  /\ ~aborted
  /\ LET h == [Forget(lh) EXCEPT !.polled = evs, !.q = queueId,
                                 !.maxSeen = MaxSeen(evs, @)]
     IN  IF evs = << >>
           THEN Catch(h)
           ELSE /\ ContinueBatch(evs, lastEventId, h)
                /\ UNCHANGED <<aborted, backoffMs, queueId, connected, waits>>
  /\ UNCHANGED notLoopVars

\* monitor.ts:387-398  pollZulipEvents resolves with a list of events
PollOk(evs) ==
  /\ lpc = "polling"
  /\ ~aborted
  /\ ContinueBatch(evs, lastEventId,
                   [Forget(lh) EXCEPT !.polled = evs, !.q = queueId,
                                      !.maxSeen = MaxSeen(evs, @)])
  /\ UNCHANGED <<aborted, backoffMs, queueId, connected, waits>>
  /\ UNCHANGED notLoopVars

\* monitor.ts:387, 399-408  pollZulipEvents rejects: an HTTP error, a
\* network error, or the fetch aborted by the signal
PollFail ==
  /\ lpc = "polling"
  /\ aborted \/ Len(waits) < MaxFails
  /\ Catch(Forget(lh))
  /\ UNCHANGED notLoopVars

HandlerEscapes_NoTry(threw) == threw

\* monitor.ts:391-395  try { await handleMessage(...) } catch (err) { log }:
\* what handleMessage throws never leaves the body of the for loop
HandlerEscapes(threw) == FALSE

\* monitor.ts:391-397  handleMessage of the event at the head of the batch
\* has ended: it returned, or it threw
HandleDone(threw) ==
  /\ lpc = "handling"
  /\ LET h == [lh EXCEPT !.active = @ - 1,
                 !.threw = IF threw THEN @ \cup {lh.entered[Len(lh.entered)]} ELSE @]
     IN  IF HandlerEscapes(threw)
           THEN Catch(h)
           ELSE /\ ContinueBatch(Tail(batch), lastEventId, h)
                /\ UNCHANGED <<aborted, backoffMs, queueId, connected, waits>>
  /\ UNCHANGED notLoopVars

BackoffDone_NeverLeaves ==
  /\ lpc = "backoff"
  /\ backoffMs' = NextBackoff(backoffMs)
  /\ UNCHANGED <<lpc, lh, aborted, queueId, lastEventId, batch, connected, waits>>
  /\ UNCHANGED notLoopVars

\* monitor.ts:408-411, 379  the backoff timer fires
BackoffDone ==
  /\ lpc = "backoff"
  /\ backoffMs' = NextBackoff(backoffMs)
  /\ lpc' = OuterLoopTop
  /\ lh' = Started(lh, OuterLoopTop)
  /\ UNCHANGED <<aborted, queueId, lastEventId, batch, connected, waits>>
  /\ UNCHANGED notLoopVars

\* the owner of opts.abortSignal aborts it
Abort ==
  /\ ~aborted
  /\ lpc # "stopped"
  /\ aborted' = TRUE
  /\ lh' = [lh EXCEPT !.abortedAt = lpc, !.enteredAtAbort = Len(lh.entered)]
  /\ UNCHANGED <<lpc, backoffMs, queueId, lastEventId, batch, connected, waits>>
  /\ UNCHANGED notLoopVars

InitLoop ==
  /\ DispatchIdle
  /\ PfIdle
  /\ LoopIdle
  /\ PolicyIdle
  /\ now = 0 /\ recentIds = << >> /\ dd = DdInit(<<<<"a">>, 1>>)

NextLoop ==
  \/ LoopStart
  \/ \E q \in QueueIds, last \in EventIds : RegisterOk(q, last)
  \/ RegisterFail
  \/ \E evs \in Batches : PollOk(evs)
  \/ PollFail
  \/ \E threw \in BOOLEAN : HandleDone(threw)
  \/ BackoffDone
  \/ Abort

SpecLoop == InitLoop /\ [][NextLoop]_vars

RECURSIVE Pow2(_)
Pow2(n) == IF n = 0 THEN 1 ELSE 2 * Pow2(n - 1)

\* C5: the waits started since the last successful registration (or since
\* the start) are 1s, 2s, 4s, 8s, 16s, 30s, 30s, ...: the i-th is
\* min(1s * 2^(i-1), 30s); so the first wait after a successful registration
\* is 1s; and the backoff value is always within [1s, 30s].
C5_BackoffSequence ==
  /\ \A i \in 1..Len(waits) :
        waits[i] = Min(BACKOFF_FLOOR_MS * Pow2(i - 1), MAX_BACKOFF_MS)
  /\ \A i \in 2..Len(waits) : waits[i] = Min(2 * waits[i - 1], MAX_BACKOFF_MS)
  /\ backoffMs >= BACKOFF_FLOOR_MS /\ backoffMs <= MAX_BACKOFF_MS

\* C5 witness: seven consecutive failures, the ceiling reached twice, and the
\* seventh wait running.
C5_Witness ==
  /\ Len(waits) >= 7
  /\ waits[6] = MAX_BACKOFF_MS /\ waits[7] = MAX_BACKOFF_MS
  /\ lpc = "backoff"

\* C33 as stated: the wait that follows a poll failure is 1s, and a wait
\* longer than 1s follows a registration failure that itself follows a
\* registration failure (consecutive registration failures).
C33_LongWaitsOnlyAfterRegistrationFailures ==
  /\ Len(lh.failed) = Len(waits)
  /\ \A i \in 1..Len(waits) :
        /\ lh.failed[i] = "polling" => waits[i] = BACKOFF_FLOOR_MS
        /\ waits[i] > BACKOFF_FLOOR_MS =>
              /\ i >= 2
              /\ lh.failed[i] = "registering"
              /\ lh.failed[i - 1] = "registering"

\* C33, amended: while a queue is registered the backoff is at its floor,
\* so the wait that follows a poll failure is 1s and is the first wait since
\* that registration; a wait longer than 1s follows a registration failure
\* that comes directly after the wait of another failure, be it a poll
\* failure or a registration failure, with no successful registration in
\* between.
C33_PollFailureWaitsFloor ==
  /\ [](/\ Len(lh.failed) = Len(waits)
        /\ lpc \in {"polling", "handling"} =>
              (backoffMs = BACKOFF_FLOOR_MS /\ waits = << >>)
        /\ \A i \in 1..Len(waits) :
              /\ lh.failed[i] \in {"registering", "polling"}
              /\ lh.failed[i] = "polling" =>
                    (i = 1 /\ waits[i] = BACKOFF_FLOOR_MS)
              /\ waits[i] > BACKOFF_FLOOR_MS =>
                    (i >= 2 /\ lh.failed[i] = "registering"))
  /\ [][
        (lpc = "polling" /\ lpc' = "backoff") =>
          (waits' = <<BACKOFF_FLOOR_MS>> /\ lh'.failed = <<"polling">>)
     ]_vars

\* C33 witness: a poll failed on a registered queue and was followed by a
\* wait of 1s; the registration after it failed and its wait, of 2s, is
\* running.
C33_Witness ==
  /\ lpc = "backoff"
  /\ lh.failed = <<"polling", "registering">>
  /\ waits = <<BACKOFF_FLOOR_MS, 2 * BACKOFF_FLOOR_MS>>

\* C36: a step in which a registration or a poll fails (the loop leaves the
\* call without a queue) while the signal is set ends the loop: the status
\* sink, the waits started and the backoff value are as before; and once
\* the loop has stopped nothing of it changes any more.
C36_FailureAfterAbortReturnsAtOnce ==
  [][
      /\ (aborted /\ lpc \in {"registering", "polling"} /\ lpc' # lpc
             /\ queueId' = 0) =>
            /\ lpc' = "stopped"
            /\ UNCHANGED <<connected, waits, backoffMs, aborted>>
      /\ lpc = "stopped" =>
            UNCHANGED <<lpc, connected, waits, backoffMs, queueId, lastEventId>>
  ]_vars

\* C36 witness: the signal was set while a poll was in flight on a
\* registered queue; the poll failed and the loop has stopped with the
\* status sink still at "connected", no wait started and the backoff at its
\* floor.
C36_Witness ==
  /\ lpc = "stopped" /\ aborted
  /\ lh.abortedAt = "polling"
  /\ queueId = 0
  /\ connected = "up"
  /\ waits = << >>
  /\ backoffMs = BACKOFF_FLOOR_MS

\* the positions of the message events of a poll result, in order
MessagePositions(evs) ==
  LET IsMessageAt(i) == evs[i].type = "message"
  IN  SelectSeq([i \in 1..Len(evs) |-> i], IsMessageAt)

\* C12: after handleMessage threw for an event of the poll result being
\* processed, the loop is handling a later event of that result or has
\* issued the next poll (or has stopped because the signal was set), with
\* the queue id the poll was made with, the backoff at its floor and the
\* status sink still "connected"; the events handed to handleMessage are the
\* message events of the result, in order and without a gap, all of them
\* once the batch is done.  The step in which the handler throws changes
\* neither queue id, backoff, status sink nor the waits, and goes on to the
\* next message event of the batch or, if there is none, to the next poll.
C12_HandlerExceptionContained ==
  /\ [](lh.threw # {} =>
          LET mp == MessagePositions(lh.polled)
          IN  /\ lpc \in {"handling", "polling", "stopped"}
              /\ lpc = "stopped" => aborted
              /\ queueId = lh.q /\ queueId # 0
              /\ backoffMs = BACKOFF_FLOOR_MS /\ connected = "up"
              /\ Len(lh.entered) <= Len(mp)
              /\ lh.entered = SubSeq(mp, 1, Len(lh.entered))
              /\ lpc # "handling" => lh.entered = mp)
  /\ [][(lh'.threw # lh.threw /\ lh'.threw # {}) =>
          /\ queueId' = queueId /\ backoffMs' = backoffMs
          /\ connected' = connected /\ waits' = waits
          /\ lpc' = IF \E i \in 2..Len(batch) : batch[i].type = "message"
                      THEN "handling"
                    ELSE IF aborted THEN "stopped" ELSE "polling"]_vars

\* C12 witness: a poll returned two message events, handleMessage threw for
\* the first, the second was handled, and the next poll is out.
C12_Witness ==
  /\ Len(lh.polled) = 2
  /\ lh.threw = {1} /\ lh.entered = <<1, 2>>
  /\ lpc = "polling" /\ lh.active = 0

\* C13: no registration and no poll is ever started when the signal is
\* already set: with the signal set the loop never moves to a registration
\* or to a poll, also not when a backoff wait ends; and the events that
\* remain in the batch are still handled: from a handler that ends the loop
\* goes to the next message event of the batch, and only without one it
\* stops, so that a loop that stopped after an abort during handling has
\* handed every message event of the poll result to handleMessage.
C13_NoNewCallAfterAbort ==
  /\ [](lh.late = {})
  /\ []((lpc = "stopped" /\ lh.abortedAt = "handling")
          => lh.entered = MessagePositions(lh.polled))
  /\ [][aborted =>
          /\ lpc' = "registering" => lpc = "registering"
          /\ lpc' = "polling" => lpc = "polling"
          /\ lpc = "handling" =>
               lpc' = IF \E i \in 2..Len(batch) : batch[i].type = "message"
                        THEN "handling" ELSE "stopped"]_vars

\* C13 witness: the signal was set while the first of two message events
\* was being handled; the second was handled too, then the loop stopped.
C13_Witness ==
  /\ lh.abortedAt = "handling" /\ lh.enteredAtAbort = 1
  /\ lh.entered = <<1, 2>>
  /\ lpc = "stopped"

\* The loop with every pending external call eventually ending: the
\* registration resolves or rejects, the poll resolves or rejects, the
\* handler returns or throws, the backoff timer fires.
SpecLoopFair ==
  /\ SpecLoop
  /\ WF_vars((\E q \in QueueIds, last \in EventIds : RegisterOk(q, last)) \/ RegisterFail)
  /\ WF_vars((\E evs \in Batches : PollOk(evs)) \/ PollFail)
  /\ WF_vars(\E threw \in BOOLEAN : HandleDone(threw))
  /\ WF_vars(BackoffDone)

\* C14: if the signal is set while the loop waits for a registration, for a
\* poll, for the backoff timer or for a handler, and every pending call
\* eventually ends, the loop eventually stops (monitorZulipProvider returns).
C14_AbortLeadsToStopped ==
  (aborted /\ lpc \in {"registering", "polling", "backoff", "handling"})
    ~> (lpc = "stopped")

\* C14 witness: the signal was set during a registration, which takes no
\* signal; the registration resolved, and the loop stopped before any poll.
C14_Witness ==
  /\ lh.abortedAt = "registering"
  /\ lpc = "stopped" /\ connected = "up" /\ queueId # 0
  /\ lh.polled = << >>

\* C15: at most one handleMessage call is in progress, and exactly while
\* the loop waits for it; while a poll is out no handleMessage call is in
\* progress and every message event of the previous poll result has been
\* handled; the events handed to handleMessage are the message events of the
\* poll result in the order of the result, one after the other, and the one
\* in progress is the first event of what remains of the result.
C15_OneAtATimeInArrivalOrder ==
  LET mp == MessagePositions(lh.polled)
      n  == Len(lh.entered)
  IN  /\ lh.active \in {0, 1}
      /\ lh.active = 1 <=> lpc = "handling"
      /\ lpc = "polling" => (lh.active = 0 /\ batch = << >>)
      /\ n <= Len(mp) /\ lh.entered = SubSeq(mp, 1, n)
      /\ lpc # "handling" => lh.entered = mp
      /\ lpc = "handling" =>
           (n > 0 /\ batch = SubSeq(lh.polled, lh.entered[n], Len(lh.polled)))

\* C15 witness: a poll returned two different message events; the first was
\* handled and the second is being handled.
C15_Witness ==
  /\ Len(lh.polled) = 2 /\ lh.polled[1] # lh.polled[2]
  /\ lh.entered = <<1, 2>>
  /\ lpc = "handling" /\ lh.active = 1 /\ lh.threw = {}

\* C22: the id passed to a poll is the largest of the registration's
\* last_event_id and the ids of all events received on the queue so far,
\* whatever their type and whether or not their handler threw, and during a
\* batch the last-seen id never exceeds it; while the queue stays the same
\* the last-seen id never decreases; a failure of the registration or of the
\* poll leaves neither queue id nor last-seen id, so that the loop holds
\* none during the backoff and the next registration, and a poll is only
\* ever issued with a queue id of a registration.
C22_LastEventIdIsMaxSeen ==
  /\ [](/\ lpc = "polling" => (queueId # 0 /\ lastEventId = lh.maxSeen)
        /\ lpc = "handling" => (queueId # 0 /\ lastEventId <= lh.maxSeen)
        /\ lpc \in {"backoff", "registering"} => (queueId = 0 /\ lastEventId = 0))
  /\ [][/\ (queueId' = queueId /\ queueId # 0) => lastEventId' >= lastEventId
        /\ (lpc = "polling" /\ lpc' \in {"backoff", "stopped"}) =>
              (queueId' = 0 /\ lastEventId' = 0)]_vars

\* C22 witness: a poll returned a message event and then a heartbeat; the
\* handler of the message threw, and the next poll is out with the highest
\* event id there is.
C22_Witness ==
  /\ lpc = "polling"
  /\ Len(lh.polled) = 2 /\ lh.polled[2].type = "heartbeat" /\ lh.threw = {1}
  /\ lastEventId = MaxEventId /\ lh.maxSeen = MaxEventId

\* C23 as stated: once the loop runs, the last `connected` value written to
\* the status sink is true exactly while the loop polls (or handles the
\* events of a poll), and false while it waits out a backoff.
C23_ConnectedExactlyWhilePolling ==
  lpc # "idle" =>
    /\ connected = "up" <=> lpc \in {"polling", "handling"}
    /\ lpc = "backoff" => connected = "down"

\* C23 amended: a registration that succeeds writes connected=true (with
\* lastError cleared) in the step that leads to the first poll; a poll or a
\* registration that fails without cancellation writes connected=false
\* (with the error) in the step that starts the backoff wait; so the last
\* value written is true while the loop polls or handles a batch and false
\* while it waits out a backoff, and it is true only then or after the loop
\* has stopped: once the signal is set, nothing more is written for a
\* failure, so a loop cancelled while connected stops with connected=true
\* as the last value.
C23_StatusTracksConnection ==
  /\ [](/\ lpc \in {"polling", "handling"} => connected = "up"
        /\ lpc = "backoff" => connected = "down"
        /\ connected = "up" => lpc \in {"polling", "handling", "stopped"}
        /\ lpc = "stopped" => aborted)
  /\ [][/\ (lpc = "registering" /\ queueId' # 0) => connected' = "up"
        /\ (lpc \in {"registering", "polling"} /\ lpc' = "backoff") =>
              (connected' = "down" /\ ~aborted)
        /\ (aborted /\ lpc \in {"polling", "handling", "backoff"}) =>
              connected' = connected
        /\ lpc = "handling" => connected' = connected]_vars

\* C23 witness: the signal was set while a poll was out; the poll failed,
\* the loop stopped, and the last value written is still connected=true.
C23_Witness ==
  /\ lpc = "stopped" /\ lh.abortedAt = "polling"
  /\ queueId = 0 /\ connected = "up"

\* C24: the step in which a poll returns an empty list of events leaves the
\* loop at the next poll, with the same queue id and the same last-seen
\* event id; no backoff wait is started, the backoff value is not changed
\* and the value in the status sink is not changed.
C24_EmptyPollIsNormal ==
  [][(lpc = "polling" /\ lh'.q # 0 /\ lh'.polled = << >>) =>
        /\ lpc' = "polling"
        /\ queueId' = queueId /\ lastEventId' = lastEventId
        /\ waits' = waits /\ backoffMs' = backoffMs
        /\ connected' = connected /\ batch' = << >>]_vars

\* C24 witness: after a registration that reported last_event_id 1, a poll
\* returned no events and the next poll is out, with that id.
C24_Witness ==
  /\ lpc = "polling" /\ ~aborted
  /\ lh.q # 0 /\ lh.q = queueId /\ lh.polled = << >>
  /\ lastEventId = 1 /\ backoffMs = BACKOFF_FLOOR_MS /\ connected = "up"

\* C25 as stated: once the signal is set, a registration or a poll that is
\* in flight is aborted: it ends as a failure, so the step that ends it
\* stops the loop without a queue, and neither a registration's queue nor a
\* poll's events are taken from a server response after the cancellation.
C25_InFlightCallsAborted ==
  [][(aborted /\ lpc \in {"registering", "polling"} /\ lpc' # lpc) =>
        (lpc' = "stopped" /\ queueId' = 0 /\ connected' = connected)]_vars

\* ------------------------------------------------------------------------
\* handleMessage: the policy gate  (monitor.ts:129-372)
\* One action per stretch of code between two awaits.  hm.pc names the await
\* the invocation is suspended at: "readAllowStream" (157), "readAllow"
\* (168), "upsert" (179), "pairSend" (186), "route" (278), "dispatch" (361).
\* hm.fx collects what the invocation has done so far:
\*   "upsert"   upsertPairingRequest was called
\*   "send"     a message was submitted to the transport
\*   "lastOutboundAt"  the status sink was written (191)
\*   "inbound"  inbound activity was recorded (209)
\*   "route"    updateLastRoute was called (278)
\*   "replygen" dispatchReplyFromConfig was called (361)
\*   "idle"     markDispatchIdle was called (372)
\*   "threw"    the invocation ended by an exception
\* hm.CommandAuthorized is the flag of the context payload (268).
\* hm.to is the reply target (200-204) and hm.log lists, in order, the calls
\* that carry a destination or a chat type: [op, to, chatType] with op
\* "pairsend" (186), "route" (278, noted when it has resolved), "replygen"
\* (361) and "send" (351, a chunk handed to sendZulipMessage by deliver).
\* Collaborators that only compute from the configuration or persist
\* locally (routing, context assembly, chunk limits, updateLastRoute)
\* return normally.
\* ------------------------------------------------------------------------
IsDm(msg) == msg.type = "private"

\* monitor.ts:146-148  autoReplyStreams.some(s => s.toLowerCase() === name.toLowerCase())
InAutoReplyStream_CaseSensitive(msg) ==
  /\ msg.type = "stream"
  /\ msg.stream \in cfg.autoReplyStreams

InAutoReplyStream(msg) ==
  /\ msg.type = "stream"
  /\ \E n \in cfg.autoReplyStreams : ToLower(n) = ToLower(msg.stream)

\* monitor.ts:142  msg.content?.trim() ?? ""
RawText(msg) == Trim(msg.content)

\* monitor.ts:206  stripMention(rawText, botName)
BodyText(msg) == stripMention(RawText(msg))

\* monitor.ts:119  normalizeAllowList(account.config.allowFrom ?? [])
configAllowFrom == normalizeAllowList(cfg.allowFrom)

getEffectiveAllowFrom_FailureIsEmptyList(readOk) ==
  IF readOk THEN configAllowFrom \cup normalizeAllowList(store.allowFrom) ELSE {}

\* monitor.ts:122-127  getEffectiveAllowFrom; a rejected store read counts
\* as an empty store (.catch(() => []))
getEffectiveAllowFrom(readOk) ==
  configAllowFrom \cup (IF readOk THEN normalizeAllowList(store.allowFrom) ELSE {})

MentionGate_Always(msg) == TRUE

\* monitor.ts:150-153  the mention gate of a stream outside the auto-reply set
MentionGate(msg) == wasBotMentioned(RawText(msg)) \/ matchesMentionPatterns(RawText(msg))

Ended(h, why) == [h EXCEPT !.pc = "done", !.drop = why]

\* The topic of the stream messages of the policy model (msg.subject).
PolicyTopic == <<"t">>

\* monitor.ts:201  `dm:${senderId}`
DmTarget(id) == <<"d", "m", ":">> \o NatToStr(id)

\* monitor.ts:203  `stream:${streamInfo.streamName}:${streamInfo.topic}`
StreamTarget(name, topic) ==
  <<"s", "t", "r", "e", "a", "m", ":">> \o name \o <<":">> \o topic

\* monitor.ts:200-204  the target for replies (streamInfo is not null for a
\* stream message)
ReplyTarget(msg) ==
  IF IsDm(msg) THEN DmTarget(msg.sender)
  ELSE StreamTarget(msg.stream, PolicyTopic)

\* monitor.ts:141  chatType
ChatTypeOf(msg) == IF IsDm(msg) THEN "direct" ELSE "channel"

Call(op, to, chatType) == [op |-> op, to |-> to, chatType |-> chatType]

\* monitor.ts:361  dispatchReplyFromConfig is called with ctxPayload
\* (ChatType 258, To 255)
ReplyGenCall(h) == Call("replygen", h.to, ChatTypeOf(h.msg))

\* monitor.ts:268  CommandAuthorized: isDm || isSenderAllowed({...,
\* allowFrom: effectiveAllowFrom}), with the list read at 168
CommandAuthorized(h) ==
  IsDm(h.msg) \/ isSenderAllowed(SenderOf(h.msg.sender), h.effectiveAllowFrom)

AfterPolicy_NoEmptyCheck(h) ==
  LET c == [h EXCEPT !.to = ReplyTarget(h.msg),
                     !.CommandAuthorized = CommandAuthorized(h)]
  IN  IF IsDm(h.msg)
        THEN [c EXCEPT !.pc = "route", !.fx = @ \cup {"inbound"}]
        ELSE [c EXCEPT !.pc = "dispatch", !.fx = @ \cup {"inbound", "replygen"},
                       !.log = Append(@, ReplyGenCall(c))]

AfterPolicy_AlwaysRoutes(h) ==
  IF BodyText(h.msg) = << >> THEN Ended(h, "empty")
  ELSE [h EXCEPT !.pc = "route", !.fx = @ \cup {"inbound"},
                 !.to = ReplyTarget(h.msg)]

\* monitor.ts:199-361  from the reply target to the next await: the empty
\* body drop, the inbound activity record, the context payload, then
\* updateLastRoute for a direct message and dispatchReplyFromConfig for a
\* stream message
AfterPolicy(h) ==
  LET t == [h EXCEPT !.to = ReplyTarget(h.msg)]
      c == [t EXCEPT !.CommandAuthorized = CommandAuthorized(h)]
  IN  IF BodyText(h.msg) = << >> THEN Ended(t, "empty")
      ELSE IF IsDm(h.msg)
        THEN [c EXCEPT !.pc = "route", !.fx = @ \cup {"inbound"}]
        ELSE [c EXCEPT !.pc = "dispatch", !.fx = @ \cup {"inbound", "replygen"},
                       !.log = Append(@, ReplyGenCall(c))]

DmGate_NoDisabledCheck(h, allowFrom) ==
  IF cfg.dmPolicy # "open" /\ ~isSenderAllowed(SenderOf(h.msg.sender), allowFrom)
    THEN IF cfg.dmPolicy = "pairing" THEN [h EXCEPT !.pc = "upsert"]
         ELSE Ended(h, "denied")
    ELSE AfterPolicy(h)

DmGate_OpenChecksAllowList(h, allowFrom) ==
  IF cfg.dmPolicy = "disabled" THEN Ended(h, "disabled")
  ELSE IF ~isSenderAllowed(SenderOf(h.msg.sender), allowFrom)
    THEN IF cfg.dmPolicy = "pairing" THEN [h EXCEPT !.pc = "upsert"]
         ELSE Ended(h, "denied")
    ELSE AfterPolicy(h)

\* monitor.ts:169-197  the DM policy, up to the await of upsertPairingRequest
DmGate(h, allowFrom) ==
  IF cfg.dmPolicy = "disabled" THEN Ended(h, "disabled")
  ELSE IF cfg.dmPolicy # "open" /\ ~isSenderAllowed(SenderOf(h.msg.sender), allowFrom)
    THEN IF cfg.dmPolicy = "pairing" THEN [h EXCEPT !.pc = "upsert"]
         ELSE Ended(h, "denied")
    ELSE AfterPolicy(h)

HmBegin_NoDedup(msg) ==
  LET h0 == [HmIdle EXCEPT !.msg = [msg EXCEPT !.id = 0],
               !.wasAllowed = isSenderAllowed(SenderOf(msg.sender), getEffectiveAllowFrom(TRUE))]
      r  == dedupeCheck(recentIds, dedupeKey(PolicyAccountId, msg.id), now)
  IN  IF msg.sender = BotUserId
        THEN /\ hm' = Ended(h0, "self")
             /\ UNCHANGED recentIds
        ELSE /\ recentIds' = r.ids
             /\ hm' = IF IsDm(msg) THEN [h0 EXCEPT !.pc = "readAllow"]
                      ELSE IF InAutoReplyStream(msg)
                        THEN [h0 EXCEPT !.pc = "readAllowStream"]
                      ELSE IF MentionGate(msg) THEN [h0 EXCEPT !.pc = "readAllow"]
                      ELSE Ended(h0, "nomention")

HmBegin_DedupFirst(msg) ==
  LET h0 == [HmIdle EXCEPT !.msg = [msg EXCEPT !.id = 0],
               !.wasAllowed = isSenderAllowed(SenderOf(msg.sender), getEffectiveAllowFrom(TRUE))]
      r  == dedupeCheck(recentIds, dedupeKey(PolicyAccountId, msg.id), now)
  IN  /\ recentIds' = r.ids
      /\ hm' = IF r.ret THEN Ended(h0, "dup")
               ELSE IF msg.sender = BotUserId THEN Ended(h0, "self")
               ELSE IF IsDm(msg) THEN [h0 EXCEPT !.pc = "readAllow"]
               ELSE IF InAutoReplyStream(msg)
                 THEN [h0 EXCEPT !.pc = "readAllowStream"]
               ELSE IF MentionGate(msg) THEN [h0 EXCEPT !.pc = "readAllow"]
               ELSE Ended(h0, "nomention")

\* monitor.ts:129-157 / 168  a message enters handleMessage: the self skip,
\* the dedup check and the mention gate, up to the first await (hm keeps the
\* message without its id, which nothing after the dedup check decides on)
HmBegin(msg) ==
  LET h0 == [HmIdle EXCEPT !.msg = [msg EXCEPT !.id = 0],
               !.wasAllowed = isSenderAllowed(SenderOf(msg.sender), getEffectiveAllowFrom(TRUE))]
      r  == dedupeCheck(recentIds, dedupeKey(PolicyAccountId, msg.id), now)
  IN  IF msg.sender = BotUserId
        THEN /\ hm' = Ended(h0, "self")
             /\ UNCHANGED recentIds
        ELSE /\ recentIds' = r.ids
             /\ hm' = IF r.ret THEN Ended(h0, "dup")
                      ELSE IF IsDm(msg) THEN [h0 EXCEPT !.pc = "readAllow"]
                      ELSE IF InAutoReplyStream(msg)
                        THEN [h0 EXCEPT !.pc = "readAllowStream"]
                      ELSE IF MentionGate(msg) THEN [h0 EXCEPT !.pc = "readAllow"]
                      ELSE Ended(h0, "nomention")

\* The server numbers messages in increasing order: a message is a new one
\* with the next id, or an earlier one delivered again.
HmStart(msg) ==
  /\ hm.pc \in {"idle", "done"}
  /\ msg.id <= Cardinality(DOMAIN recentIds) + 1
  /\ HmBegin(msg)
  /\ UNCHANGED <<cfg, store, pairReplies>>
  /\ UNCHANGED notPolicyVars

StreamGate_IgnoreSender(h, allowFrom) == [h EXCEPT !.pc = "readAllow"]

\* monitor.ts:158-163  the allow-list gate of an auto-reply stream
StreamGate(h, allowFrom) ==
  IF allowFrom # {} /\ ~isSenderAllowed(SenderOf(h.msg.sender), allowFrom)
    THEN Ended(h, "notallowed")
    ELSE [h EXCEPT !.pc = "readAllow"]

\* monitor.ts:157-164  the store read of the auto-reply branch ends
HmReadAllowStream(readOk) ==
  /\ hm.pc = "readAllowStream"
  /\ LET allowFrom == getEffectiveAllowFrom(readOk)
     IN  hm' = StreamGate([hm EXCEPT !.streamAllowFrom = allowFrom,
                                     !.readOk = readOk], allowFrom)
  /\ UNCHANGED <<recentIds, cfg, store, pairReplies>>
  /\ UNCHANGED notPolicyVars

\* monitor.ts:168-197 ...  the store read before the DM policy ends
HmReadAllow(readOk) ==
  /\ hm.pc = "readAllow"
  /\ LET allowFrom == getEffectiveAllowFrom(readOk)
         h == [hm EXCEPT !.effectiveAllowFrom = allowFrom,
                         !.readOk = @ /\ readOk]
     IN  hm' = IF IsDm(hm.msg) THEN DmGate(h, allowFrom) ELSE AfterPolicy(h)
  /\ UNCHANGED <<recentIds, cfg, store, pairReplies>>
  /\ UNCHANGED notPolicyVars

SendPairingReply_Always(created) == TRUE

\* monitor.ts:184  if (created)
SendPairingReply(created) == created

\* core.channel.pairing.upsertPairingRequest, the pairing store's side: it
\* keeps one pending request per sender id and reports created only when it
\* had none for the id.
upsertPairingRequest(pending, id) ==
  [created |-> id \notin pending, pending |-> pending \cup {id}]

\* monitor.ts:179-190  upsertPairingRequest resolves with {code, created};
\* on created the pairing reply is submitted to dm:<id>
HmUpsert ==
  /\ hm.pc = "upsert"
  /\ LET id == hm.msg.sender
         r == upsertPairingRequest(store.pending, id)
         created == r.created
     IN  /\ store' = [store EXCEPT !.pending = r.pending]
         /\ IF SendPairingReply(created)
              THEN /\ hm' = [hm EXCEPT !.pc = "pairSend", !.fx = @ \cup {"upsert", "send"},
                                        !.log = Append(@, Call("pairsend", DmTarget(id), ""))]
                   /\ pairReplies' = [pairReplies EXCEPT ![id] = @ + 1]
              ELSE /\ hm' = [Ended(hm, "unpaired") EXCEPT !.fx = @ \cup {"upsert"}]
                   /\ UNCHANGED pairReplies
  /\ UNCHANGED <<recentIds, cfg>>
  /\ UNCHANGED notPolicyVars

HmPairSend_NoCatch(sendOk) ==
  /\ hm.pc = "pairSend"
  /\ hm' = IF sendOk
             THEN [Ended(hm, "unpaired") EXCEPT
                     !.fx = @ \cup {"lastOutboundAt"}, !.sent = "ok"]
             ELSE [hm EXCEPT !.pc = "done", !.fx = @ \cup {"threw"},
                             !.sent = "failed"]
  /\ UNCHANGED <<recentIds, cfg, store, pairReplies>>
  /\ UNCHANGED notPolicyVars

\* monitor.ts:186-195  sendZulipMessage of the pairing reply resolves or
\* rejects (the rejection is swallowed by the empty catch); hm.sent keeps
\* which of the two happened
HmPairSend(sendOk) ==
  /\ hm.pc = "pairSend"
  /\ hm' = [Ended(hm, "unpaired") EXCEPT
              !.fx = IF sendOk THEN @ \cup {"lastOutboundAt"} ELSE @,
              !.sent = IF sendOk THEN "ok" ELSE "failed"]
  /\ UNCHANGED <<recentIds, cfg, store, pairReplies>>
  /\ UNCHANGED notPolicyVars

\* monitor.ts:273-361  updateLastRoute resolves; the dispatcher is built and
\* dispatchReplyFromConfig is called
HmRoute ==
  /\ hm.pc = "route"
  /\ hm' = [hm EXCEPT !.pc = "dispatch", !.fx = @ \cup {"route", "replygen"},
                      !.log = @ \o <<Call("route", hm.to, ""), ReplyGenCall(hm)>>]
  /\ UNCHANGED <<recentIds, cfg, store, pairReplies>>
  /\ UNCHANGED notPolicyVars

\* the number of chunks the invocation handed to sendZulipMessage
Sends(h) == Cardinality({i \in 1..Len(h.log) : h.log[i].op = "send"})

\* monitor.ts:344-352  during dispatchReplyFromConfig the dispatcher calls
\* deliver and a chunk is handed to sendZulipMessage(to, chunk); the log
\* keeps the first one (every chunk is sent with the same closure variable)
HmDeliver ==
  /\ hm.pc = "dispatch"
  /\ Sends(hm) = 0
  /\ hm' = [hm EXCEPT !.log = Append(@, Call("send", hm.to, ""))]
  /\ UNCHANGED <<recentIds, cfg, store, pairReplies>>
  /\ UNCHANGED notPolicyVars

\* monitor.ts:361-372  dispatchReplyFromConfig resolves, markDispatchIdle
HmDispatchReturn ==
  /\ hm.pc = "dispatch"
  /\ hm' = [hm EXCEPT !.pc = "done", !.fx = @ \cup {"idle"}]
  /\ UNCHANGED <<recentIds, cfg, store, pairReplies>>
  /\ UNCHANGED notPolicyVars

\* monitor.ts:361  dispatchReplyFromConfig rejects: handleMessage throws
HmDispatchThrow ==
  /\ hm.pc = "dispatch"
  /\ hm' = [hm EXCEPT !.pc = "done", !.fx = @ \cup {"threw"}]
  /\ UNCHANGED <<recentIds, cfg, store, pairReplies>>
  /\ UNCHANGED notPolicyVars

\* The operator approves the pending pairing request of sender id: the
\* request leaves the pending list and the id enters the store's allowFrom.
Approve(id) ==
  /\ id \in store.pending
  /\ store' = [allowFrom |-> store.allowFrom \cup {NatToStr(id)},
               pending |-> store.pending \ {id}]
  /\ UNCHANGED <<recentIds, cfg, hm, pairReplies>>
  /\ UNCHANGED notPolicyVars

InitPolicy ==
  /\ DispatchIdle
  /\ PfIdle
  /\ now = 0 /\ recentIds = << >> /\ dd = DdInit(<<PolicyAccountId, 1>>)
  /\ LoopIdle
  /\ cfg \in Configs
  /\ store \in [allowFrom : {{}}, pending : {{}, {Al.id}}]
  /\ hm = HmIdle
  /\ pairReplies = [u \in UserIds |-> IF u \in store.pending THEN 1 ELSE 0]

NextPolicy ==
  \/ \E msg \in Messages : HmStart(msg)
  \/ \E readOk \in BOOLEAN : HmReadAllowStream(readOk)
  \/ \E readOk \in BOOLEAN : HmReadAllow(readOk)
  \/ HmUpsert
  \/ \E sendOk \in BOOLEAN : HmPairSend(sendOk)
  \/ HmRoute
  \/ HmDeliver
  \/ HmDispatchReturn
  \/ HmDispatchThrow
  \/ \E id \in UserIds : Approve(id)

SpecPolicy == InitPolicy /\ [][NextPolicy]_vars

\* ------------------------------------------------------------------------
\* Claims about the policy gate.  They are stated with the words of the
\* specification, spelled out here independently of the operators above.
\* ------------------------------------------------------------------------
\* hm holds a message that entered policy evaluation: not the bot's own
\* message and not a duplicate (both are discarded before any policy).
Entered == hm.msg.type # "none" /\ hm.drop \notin {"self", "dup"}

HmSender == SenderOf(hm.msg.sender)

\* the channel of a broadcast message is in the auto-reply set, names
\* compared case-insensitively
InAutoReplySet(msg) ==
  \E n \in cfg.autoReplyStreams : ToLower(n) = ToLower(msg.stream)

HasMention(msg) ==
  \E i \in 1..Len(msg.content) : msg.content[i] \in {"@B", "@b", "p"}

\* the effective allow-list as it is now: configuration and pairing store
AllowListNow == getEffectiveAllowFrom(TRUE)

Replied == {"replygen", "send", "upsert", "route", "inbound", "lastOutboundAt"}

C8_MentionGate ==
  (hm.msg.type = "stream" /\ ~InAutoReplySet(hm.msg)) =>
    /\ ~HasMention(hm.msg) => (hm.pc = "done" /\ hm.fx = {})
    /\ (HasMention(hm.msg) /\ BodyText(hm.msg) # << >> /\ Entered /\ hm.pc = "done")
        => "replygen" \in hm.fx

\* C8 witness: a mention in a stream outside the auto-reply set, from a
\* sender whom a non-empty allow-list does not contain, reached reply
\* generation.
C8_Witness ==
  /\ hm.msg.type = "stream" /\ ~InAutoReplySet(hm.msg)
  /\ wasBotMentioned(hm.msg.content)
  /\ hm.effectiveAllowFrom # {}
  /\ ~isSenderAllowed(HmSender, hm.effectiveAllowFrom)
  /\ hm.pc = "done" /\ "replygen" \in hm.fx

C10_DisabledDropsDm ==
  (cfg.dmPolicy = "disabled" /\ IsDm(hm.msg)) =>
    /\ hm.fx = {}
    /\ hm.pc \in {"readAllow", "done"}
    /\ hm.pc = "done" => hm.drop \in {"self", "dup", "disabled"}

\* C10 witness: under disabled, a direct message of an allow-listed sender
\* with a pending pairing request from earlier was dropped by the policy.
C10_Witness ==
  /\ cfg.dmPolicy = "disabled"
  /\ IsDm(hm.msg) /\ hm.pc = "done" /\ hm.drop = "disabled"
  /\ isSenderAllowed(HmSender, hm.effectiveAllowFrom)
  /\ hm.msg.sender \in store.pending

C16_OwnMessageDiscarded ==
  /\ [](hm.msg.sender = BotUserId =>
          (hm.pc = "done" /\ hm.drop = "self" /\ hm.fx = {}))
  /\ [][(hm.pc \in {"idle", "done"} /\ hm'.msg.sender = BotUserId
           /\ (hm' # hm \/ recentIds' # recentIds)) =>
          /\ recentIds' = recentIds
          /\ store' = store /\ pairReplies' = pairReplies
          /\ dphase' = dphase /\ pl' = pl]_vars

\* C16 witness: with policy open and a wildcard in the allow-list, a direct
\* message of the bot itself, with a body, arrived after another message had
\* been recorded in the dedup cache, and was discarded.
C16_Witness ==
  /\ hm.msg.sender = BotUserId /\ hm.pc = "done" /\ hm.drop = "self"
  /\ IsDm(hm.msg) /\ BodyText(hm.msg) # << >>
  /\ cfg.dmPolicy = "open" /\ <<"*">> \in cfg.allowFrom
  /\ Cardinality(DOMAIN recentIds) = 1

\* a direct message that passed the DM policy with a body: admitted
AdmittedDm ==
  /\ IsDm(hm.msg) /\ Entered
  /\ hm.pc \in {"dispatch", "done"}
  /\ cfg.dmPolicy # "disabled"
  /\ cfg.dmPolicy = "open" \/ isSenderAllowed(HmSender, hm.effectiveAllowFrom)
  /\ BodyText(hm.msg) # << >>

CallsOf(op) == SelectSeq(hm.log, LAMBDA c : c.op = op)

C20_MentionStripped ==
  "replygen" \in hm.fx =>
    LET body == BodyText(hm.msg)
    IN  /\ (hm.msg.type = "stream" /\ ~InAutoReplySet(hm.msg)) =>
              /\ \A i \in 1..Len(body) : body[i] \notin {"@B", "@b", "p"}
              /\ \A i \in 1..(Len(body) - 1) : ~(body[i] = " " /\ body[i + 1] = " ")
        /\ ~HasMention(hm.msg) => body = Trim(hm.msg.content)

\* C31 as stated: a message for which reply dispatch began (reply
\* generation was called) and whose handling has ended had dispatch-idle
\* signalled, also when the reply generation call threw; and dispatch-idle
\* is never signalled while the reply generation call is pending.
C31_DispatchIdleAlwaysSignalled ==
  /\ ("replygen" \in hm.fx /\ hm.pc = "done") => "idle" \in hm.fx
  /\ hm.pc = "dispatch" => "idle" \notin hm.fx

\* C34: the key of a message is recorded in the step that begins its
\* handling, before any gate of the policy is decided, and no later step
\* of the handling touches the cache, so the key is there whatever the
\* handling ends in.  A message that is not the bot's own and is delivered
\* while its key is in the cache (handleMessage is entered and no key is
\* added) ends at once as a duplicate: no store is read, no pairing request
\* is made, no reply generation is called, nothing is sent, and the
\* pairing store and the count of pairing replies are as before.
C34_RedeliveryHasNoEffect ==
  /\ [](/\ hm.drop = "dup" =>
              (hm.pc = "done" /\ hm.fx = {} /\ hm.log = << >>)
        /\ Entered => Cardinality(DOMAIN recentIds) >= 1)
  /\ [][
        /\ hm.pc \notin {"idle", "done"} => recentIds' = recentIds
        /\ (hm.pc \in {"idle", "done"} /\ hm'.pc # "idle"
              /\ hm'.msg.sender # BotUserId /\ hm'.msg.type # "none"
              /\ (hm' # hm \/ recentIds' # recentIds)) =>
             IF DOMAIN recentIds' = DOMAIN recentIds
               THEN /\ hm' = Ended([HmIdle EXCEPT !.msg = hm'.msg,
                                                  !.wasAllowed = hm'.wasAllowed], "dup")
                    /\ UNCHANGED <<recentIds, store, pairReplies, cfg>>
               ELSE /\ hm'.drop # "dup"
                    /\ Cardinality(DOMAIN recentIds') =
                         Cardinality(DOMAIN recentIds) + 1
     ]_vars

\* C34 witness: a direct message of a sender outside the allow-list, under
\* policy pairing, was delivered again with its key in the cache: it ended
\* as a duplicate, and the sender still has the one pairing request and the
\* one pairing reply of the first delivery.
C34_Witness ==
  /\ hm.pc = "done" /\ hm.drop = "dup"
  /\ IsDm(hm.msg) /\ cfg.dmPolicy = "pairing"
  /\ ~isSenderAllowed(HmSender, AllowListNow)
  /\ hm.msg.sender \in store.pending
  /\ pairReplies[hm.msg.sender] = 1

\* the allow-list a successful read yields when the pairing store is empty
EmptyStoreAllowFrom == configAllowFrom \cup normalizeAllowList({})

\* the message has passed the policy gates
PassedPolicy ==
  \/ hm.pc \in {"route", "dispatch"}
  \/ hm.pc = "done" /\ hm.drop \in {"", "empty"}

\* C35: a store read that fails yields the static configuration allow-list
\* alone, which is the list a read of an empty store yields; the step that
\* ends the read goes on to the gate with that list, throws nothing, and
\* leaves the handling where the gate decided with the empty-store list
\* leaves it.  So a direct message whose read failed has passed the policy
\* exactly when the policy is open, or is not disabled and the
\* configuration list alone admits the sender.
C35_ReadFailureIsEmptyStore ==
  /\ [](/\ "threw" \in hm.fx => "replygen" \in hm.fx
        /\ (IsDm(hm.msg) /\ Entered /\ ~hm.readOk
              /\ hm.pc \notin {"idle", "readAllow"}) =>
             /\ hm.effectiveAllowFrom = EmptyStoreAllowFrom
             /\ PassedPolicy <=>
                   /\ cfg.dmPolicy # "disabled"
                   /\ \/ cfg.dmPolicy = "open"
                      \/ isSenderAllowed(HmSender, configAllowFrom))
  /\ [][
        /\ (hm.pc = "readAllowStream" /\ hm'.pc # "readAllowStream"
              /\ ~hm'.readOk) =>
             /\ hm'.streamAllowFrom = EmptyStoreAllowFrom
             /\ hm' = StreamGate([hm EXCEPT !.streamAllowFrom = EmptyStoreAllowFrom,
                                            !.readOk = FALSE],
                                 EmptyStoreAllowFrom)
        /\ (hm.pc = "readAllow" /\ hm'.pc # "readAllow"
              /\ hm.readOk /\ ~hm'.readOk) =>
             LET h == [hm EXCEPT !.effectiveAllowFrom = EmptyStoreAllowFrom,
                                 !.readOk = FALSE]
             IN  hm' = IF IsDm(hm.msg) THEN DmGate(h, EmptyStoreAllowFrom)
                       ELSE AfterPolicy(h)
     ]_vars

\* C35 witness: under policy pairing the sender of a direct message is in
\* the pairing store only (the operator approved the request); the store
\* read for the message failed and the message took the way of a sender
\* not yet paired, as it does with an empty store.
C35_Witness ==
  /\ IsDm(hm.msg) /\ cfg.dmPolicy = "pairing"
  /\ ~hm.readOk
  /\ hm.pc = "done" /\ hm.drop = "unpaired"
  /\ isSenderAllowed(HmSender, AllowListNow)
  /\ ~isSenderAllowed(HmSender, configAllowFrom)

\* C37: a pairing reply whose send failed leaves the handling ended as the
\* drop of an unpaired sender, with no exception, no lastOutboundAt and no
\* reply generation; lastOutboundAt is written exactly when the send of the
\* pairing reply succeeded; and the step in which the send ends, in failure
\* or success, leaves the pairing store with its requests as it was.
C37_PairingSendFailureSwallowed ==
  /\ [](/\ hm.sent = "failed" =>
              /\ hm.pc = "done" /\ hm.drop = "unpaired"
              /\ hm.fx = {"upsert", "send"}
              /\ CallsOf("send") = << >>
        /\ "lastOutboundAt" \in hm.fx <=> hm.sent = "ok"
        /\ hm.sent # "none" => "upsert" \in hm.fx)
  /\ [][
        (hm.pc = "pairSend" /\ hm'.pc # "pairSend") =>
          /\ hm'.sent \in {"ok", "failed"}
          /\ UNCHANGED <<store, pairReplies, recentIds>>
          /\ hm.msg.sender \in store.pending => hm.msg.sender \in store'.pending
     ]_vars

\* C37 witness: the pairing reply to a sender failed to be sent; the
\* handling has ended, the request of the sender is pending and the one
\* pairing reply that was attempted is counted.
C37_Witness ==
  /\ hm.sent = "failed" /\ hm.pc = "done"
  /\ hm.msg.sender \in store.pending
  /\ pairReplies[hm.msg.sender] = 1
  /\ "lastOutboundAt" \notin hm.fx

C21_CommandAuthorizedMatchesGate ==
  "replygen" \in hm.fx =>
    /\ IsDm(hm.msg) => hm.CommandAuthorized
    /\ (hm.msg.type = "stream" /\ InAutoReplySet(hm.msg)) =>
          (hm.CommandAuthorized <=> isSenderAllowed(HmSender, hm.streamAllowFrom))

\* ------------------------------------------------------------------------
\* Reply dispatch  (monitor.ts:333-372, send.ts:56-115)
\* dphase[d]: "none" before handleMessage of message d calls
\* dispatchReplyFromConfig, "open" while the call is pending, "returned" or
\* "threw" after it.  pl[d] lists the payloads the dispatcher handed to
\* deliver, each with
\*   chunks    what chunkMarkdownTextWithMode made of it: "text" a chunk with
\*             content, "empty" the empty string
\*   state     "queued" (its function waits in sendChain), "running", "ok"
\*             (the function returned), "failed" (it threw)
\*   next      the index of the chunk whose send is in flight or was last
\*   inflight  a transport send of this payload is in flight
\*   sub       the indexes of the chunks submitted to the transport
\* The reply-generation collaborator decides when it calls deliver: during
\* the dispatchReplyFromConfig call or after it has returned, and whether or
\* not the previous deliver call has settled.
\* ------------------------------------------------------------------------
ChunkLists == UNION { [1..n -> {"text", "empty"}] : n \in 1..MaxChunks }

\* m2 stands for any later message with the same destination: one payload
\* of one chunk is enough to see its reply among the chunks of m1's reply.
PayloadsOf(d) == IF d = 1 THEN MaxPayloads ELSE 1

ChunkListsOf(d) == IF d = 1 THEN ChunkLists ELSE {<<"text">>}

Settled(p) == p.state \in {"ok", "failed"}

\* monitor.ts:349-352  the for loop over the chunks from index i up to the
\* next await: empty chunks are skipped, the next one is submitted
\* (send.ts:101), and past the last one the function returns
RECURSIVE RunChunks(_, _)
RunChunks(p, i) ==
  IF i > Len(p.chunks) THEN [p EXCEPT !.state = "ok", !.inflight = FALSE]
  ELSE IF p.chunks[i] = "empty" THEN RunChunks(p, i + 1)
  ELSE [p EXCEPT !.state = "running", !.next = i, !.inflight = TRUE,
                 !.sub = @ \cup {i}]

CanStart_NoChain(q, k) == q[k].state = "queued"

CanStart_OnlyAfterSuccess(q, k) ==
  /\ q[k].state = "queued"
  /\ IF k = 1 THEN TRUE ELSE q[k - 1].state = "ok"

\* monitor.ts:336  sendChain = sendChain.then(fn, fn): the function of
\* payload k runs once the function of payload k-1 has returned or thrown
CanStart(q, k) ==
  /\ q[k].state = "queued"
  /\ IF k = 1 THEN TRUE ELSE Settled(q[k - 1])

RECURSIVE Pump(_)
\* The promise jobs of sendChain, run until none is left: every payload
\* function that may start runs up to its first await.
Pump(q) ==
  LET ready == {k \in 1..Len(q) : CanStart(q, k)}
  IN  IF ready = {} THEN q
      ELSE LET k == CHOOSE x \in ready : \A y \in ready : x <= y
           IN  Pump([q EXCEPT ![k] = RunChunks(@, 1)])

\* monitor.ts:129-361  handleMessage of message d reaches
\* dispatchReplyFromConfig; the loop handles m2 after handleMessage of m1
\* has ended (monitor.ts:388-396)
DispatchOpen(d) ==
  /\ dphase[d] = "none"
  /\ \A e \in Dispatches : e < d => dphase[e] \in {"returned", "threw"}
  /\ dphase' = [dphase EXCEPT ![d] = "open"]
  /\ UNCHANGED <<pl, typing>>
  /\ UNCHANGED notDispatchVars

\* monitor.ts:361-373  dispatchReplyFromConfig resolves; markDispatchIdle;
\* handleMessage returns without waiting for sendChain
DispatchReturn(d) ==
  /\ dphase[d] = "open"
  /\ dphase' = [dphase EXCEPT ![d] = "returned"]
  /\ UNCHANGED <<pl, typing>>
  /\ UNCHANGED notDispatchVars

\* monitor.ts:361, 393  dispatchReplyFromConfig rejects; handleMessage throws
DispatchThrow(d) ==
  /\ dphase[d] = "open"
  /\ dphase' = [dphase EXCEPT ![d] = "threw"]
  /\ UNCHANGED <<pl, typing>>
  /\ UNCHANGED notDispatchVars

\* monitor.ts:344-352, 335-338  the dispatcher calls deliver(payload):
\* enqueueSend chains the payload's function onto sendChain
Deliver(d, chunks) ==
  /\ dphase[d] \in {"open", "returned"}
  /\ Len(pl[d]) < PayloadsOf(d)
  /\ chunks \in ChunkListsOf(d)
  /\ pl' = [pl EXCEPT ![d] = Pump(Append(@,
               [chunks |-> chunks, state |-> "queued", next |-> 0,
                inflight |-> FALSE, sub |-> {}]))]
  /\ UNCHANGED <<dphase, typing>>
  /\ UNCHANGED notDispatchVars

\* monitor.ts:351-352, send.ts:101-114  the transport answers the send in
\* flight: on success the loop goes on with the next chunk; on failure
\* sendZulipMessage throws out of the loop and the payload's function
\* throws, which rejects the deliver call (onError logs it, monitor.ts:355);
\* either way sendChain goes on with the payloads that wait
SendDone(d, k, ok) ==
  /\ k \in 1..Len(pl[d])
  /\ pl[d][k].inflight
  /\ LET p == pl[d][k]
         after == IF ok THEN RunChunks([p EXCEPT !.inflight = FALSE], p.next + 1)
                  ELSE [p EXCEPT !.state = "failed", !.inflight = FALSE]
     IN  pl' = [pl EXCEPT ![d] = Pump([@ EXCEPT ![k] = after])]
  /\ UNCHANGED <<dphase, typing>>
  /\ UNCHANGED notDispatchVars

InitDispatch ==
  /\ DispatchIdle
  /\ PfIdle
  /\ LoopIdle
  /\ PolicyIdle
  /\ now = 0 /\ recentIds = << >> /\ dd = DdInit(<<PolicyAccountId, 1>>)

NextDispatch ==
  \/ \E d \in Dispatches : DispatchOpen(d)
  \/ \E d \in Dispatches : DispatchReturn(d)
  \/ \E d \in Dispatches : DispatchThrow(d)
  \/ \E d \in Dispatches, chunks \in ChunkLists : Deliver(d, chunks)
  \/ \E d \in Dispatches, k \in 1..MaxPayloads, ok \in BOOLEAN : SendDone(d, k, ok)

SpecDispatch == InitDispatch /\ [][NextDispatch]_vars

\* ------------------------------------------------------------------------
\* Claims about the reply dispatch.
\* ------------------------------------------------------------------------
InFlight(d) == {k \in 1..Len(pl[d]) : pl[d][k].inflight}

TextChunks(p) == {i \in 1..Len(p.chunks) : p.chunks[i] = "text"}

\* C2: within the dispatch of one inbound message at most one transport
\* send is in flight; a payload's function has started only when every
\* earlier payload has ended (in success or failure), also when deliver was
\* called for it while an earlier payload was being sent; and inside a
\* payload the chunks submitted so far are exactly the non-empty ones up to
\* the one in flight, so every send starts after the send before it, in
\* generation order, has completed.
C2_OneSendAtATimeInOrder ==
  \A d \in Dispatches :
    /\ Cardinality(InFlight(d)) <= 1
    /\ \A k \in 1..Len(pl[d]) :
          LET p == pl[d][k]
          IN  /\ p.state # "queued" => \A j \in 1..(k - 1) : Settled(pl[d][j])
              /\ p.inflight => (p.state = "running" /\ p.next \in p.sub)
              /\ p.state = "running" =>
                    p.sub = {i \in TextChunks(p) : i <= p.next}
              /\ p.state = "queued" => p.sub = {}

\* C2 witness: deliver was called for the second payload while the second
\* chunk of the first payload is being sent; the second payload waits.
C2_Witness ==
  /\ Len(pl[1]) = 2
  /\ pl[1][1].inflight /\ pl[1][1].next = 2 /\ pl[1][1].sub = {1, 2}
  /\ pl[1][2].state = "queued"
  /\ TextChunks(pl[1][2]) # {}

\* C3 as stated: once the reply of a message has come to rest (no payload
\* queued or running), for every payload that failed on a transport send
\* every later non-empty chunk of the reply, in the same payload and in the
\* later payloads, has been submitted to the transport.
C3_LaterChunksStillSubmitted ==
  \A d \in Dispatches :
    (\A k \in 1..Len(pl[d]) : Settled(pl[d][k])) =>
      \A k \in 1..Len(pl[d]) :
        pl[d][k].state = "failed" =>
          /\ \A i \in TextChunks(pl[d][k]) : i > pl[d][k].next => i \in pl[d][k].sub
          /\ \A j \in (k + 1)..Len(pl[d]) : TextChunks(pl[d][j]) \subseteq pl[d][j].sub

\* C4 as stated: no chunk of m2's reply is submitted to the transport before
\* every chunk of m1's reply has been submitted and has completed.
C4_NoChunkOfLaterMessageFirst ==
  (\E k \in 1..Len(pl[2]) : pl[2][k].sub # {}) =>
    \A k \in 1..Len(pl[1]) :
      Settled(pl[1][k]) /\ TextChunks(pl[1][k]) \subseteq pl[1][k].sub

\* C32: a payload whose delivery failed does not hold up the later payloads
\* of the same message and does not touch the outcome of any other deliver
\* call.  No payload waits behind payloads that have all ended; a payload
\* has started only when every earlier one has ended; the outcome of a
\* deliver call that has ended never changes; and a deliver call turns to
\* rejected only in the step that answers its own send in flight, in which
\* no other deliver call of the message is rejected.
C32_FailureStaysWithItsPayload ==
  /\ [](\A d \in Dispatches : \A k \in 1..Len(pl[d]) :
          /\ pl[d][k].state = "queued" =>
                \E j \in 1..(k - 1) : ~Settled(pl[d][j])
          /\ pl[d][k].state # "queued" =>
                \A j \in 1..(k - 1) : Settled(pl[d][j])
          /\ pl[d][k].state = "failed" => pl[d][k].next \in pl[d][k].sub)
  /\ [][
        \A d \in Dispatches : \A k \in 1..Len(pl[d]) :
          /\ Settled(pl[d][k]) => pl'[d][k] = pl[d][k]
          /\ (pl'[d][k].state = "failed" /\ pl[d][k].state # "failed") =>
                /\ pl[d][k].inflight
                /\ \A j \in 1..Len(pl[d]) :
                      (j # k /\ pl'[d][j].state = "failed") =>
                        pl[d][j].state = "failed"
     ]_vars

\* C32 witness: the first payload of a reply failed on a send, and the
\* second payload has run after it and has ended in success with its
\* chunks submitted.
C32_Witness ==
  /\ Len(pl[1]) = 2
  /\ pl[1][1].state = "failed"
  /\ pl[1][2].state = "ok"
  /\ pl[1][2].sub = TextChunks(pl[1][2])
  /\ pl[1][2].sub # {}

\* ------------------------------------------------------------------------
\* The typing indicator of one reply  (monitor.ts:308-331, 358).  The
\* dispatcher calls onReplyStart while dispatchReplyFromConfig is pending;
\* that runs the start callback, which awaits sendZulipTyping.  typing is
\* "none" before the call, "starting" while the transport call is in
\* flight, then "started" or "failed".  The specification follows the reply
\* of the first inbound message alone.
\* ------------------------------------------------------------------------
\* the first inbound message
TypingD == CHOOSE d \in Dispatches : \A e \in Dispatches : d <= e

TypingStartEscapes_NoTry(ok) == ~ok

\* monitor.ts:310-321  try { await sendZulipTyping(...) } catch {}: what the
\* transport call throws never leaves the start callback
TypingStartEscapes(ok) == FALSE

\* monitor.ts:358, 309-320  onReplyStart: the typing-start call goes out
TypingStart ==
  /\ dphase[TypingD] = "open"
  /\ typing = "none"
  /\ typing' = "starting"
  /\ UNCHANGED <<dphase, pl>>
  /\ UNCHANGED notDispatchVars

\* monitor.ts:312-321  sendZulipTyping resolves or rejects; an exception
\* that left the callback would reject the reply generation call
TypingDone(ok) ==
  /\ typing = "starting"
  /\ typing' = IF ok THEN "started" ELSE "failed"
  /\ IF TypingStartEscapes(ok)
       THEN dphase' = [dphase EXCEPT ![TypingD] = "threw"]
       ELSE UNCHANGED dphase
  /\ UNCHANGED pl
  /\ UNCHANGED notDispatchVars

NextTyping ==
  \/ DispatchOpen(TypingD)
  \/ TypingStart
  \/ \E ok \in BOOLEAN : TypingDone(ok)
  \/ \E chunks \in ChunkLists : Deliver(TypingD, chunks)
  \/ \E k \in 1..MaxPayloads, ok \in BOOLEAN : SendDone(TypingD, k, ok)
  \/ DispatchReturn(TypingD)
  \/ DispatchThrow(TypingD)

SpecTyping == InitDispatch /\ [][NextTyping]_vars

\* C26: the step in which the typing-start call ends, in success or in
\* failure, changes neither the state of the reply generation call (no
\* exception reaches handleMessage) nor any payload or chunk of the reply;
\* and whatever the typing-start call did, the dispatcher can hand over the
\* next payload exactly while the reply is open to payloads, and a send in
\* flight can be answered: delivery never waits for the typing indicator.
C26_TypingFailureNeverAffectsReply ==
  /\ [](/\ (ENABLED (\E chunks \in ChunkLists : Deliver(TypingD, chunks)))
             <=> (/\ dphase[TypingD] \in {"open", "returned"}
                  /\ Len(pl[TypingD]) < PayloadsOf(TypingD))
        /\ \A k \in 1..Len(pl[TypingD]) :
             pl[TypingD][k].inflight =>
               ENABLED (\E ok \in BOOLEAN : SendDone(TypingD, k, ok))
        /\ C2_OneSendAtATimeInOrder)
  /\ [][typing' # typing => (dphase' = dphase /\ pl' = pl)]_vars

\* C26 witness: the typing-start call failed while the first chunk was
\* being sent; the reply of two payloads, the first of two chunks, was
\* submitted in full and handleMessage returned normally.
C26_Witness ==
  /\ typing = "failed" /\ dphase[TypingD] = "returned"
  /\ Len(pl[TypingD]) = 2
  /\ pl[TypingD][1].chunks = <<"text", "text">> /\ pl[TypingD][1].sub = {1, 2}
  /\ \A k \in 1..2 : pl[TypingD][k].state = "ok"
                        /\ TextChunks(pl[TypingD][k]) \subseteq pl[TypingD][k].sub
  /\ TextChunks(pl[TypingD][2]) # {}

\* ------------------------------------------------------------------------
\* The reply target, from the monitor to the send boundary
\* (monitor.ts:200-204, send.ts:25-54).  pf follows one target:
\*   kind, name, topic, id   what the monitor builds it from
\*   stage   "in", "built" (raw holds the string), "parsed" (out holds what
\*           parseZulipTarget returned)
\* ------------------------------------------------------------------------
TargetChars == {"a", ":", " "}

\* Stream names and topics as the server hands them out: not empty and
\* without whitespace at either end.
ServerNames ==
  {x \in UNION {[1..k -> TargetChars] : k \in 1..MaxNameLen} : Trim(x) = x}

\* sender ids of one and of two digits
TargetUserIds == {2, 10}

IsDigitChar(c) == c \in {"0", "1", "2", "3", "4", "5", "6", "7", "8", "9"}

DigitValue(c) == CHOOSE d \in 0..9 : Digit(d) = c

RECURSIVE StrToNat(_)
StrToNat(str) ==
  IF str = << >> THEN 0
  ELSE 10 * StrToNat(SubSeq(str, 1, Len(str) - 1)) + DigitValue(str[Len(str)])

\* String.prototype.indexOf for one character; 0 stands for -1, positions
\* count from 1
IndexOf(str, c) ==
  IF \E i \in 1..Len(str) : str[i] = c
    THEN CHOOSE i \in 1..Len(str) : str[i] = c /\ \A j \in 1..(i - 1) : str[j] # c
    ELSE 0

\* the default topic of send.ts, "(no topic)"
NoTopic == <<"(no topic)">>

\* send.ts:51  JSON.stringify([Number(id) || id])
JsonIdArray(id) ==
  IF id # << >> /\ (\A i \in 1..Len(id) : IsDigitChar(id[i])) /\ StrToNat(id) # 0
    THEN <<"[">> \o NatToStr(StrToNat(id)) \o <<"]">>
    ELSE <<"[", "\"">> \o id \o <<"\"", "]">>

\* send.ts:25-54  parseZulipTarget
parseZulipTarget(raw) ==
  LET trimmed == Trim(raw)
  IN  IF trimmed = << >>
        THEN [type |-> "error", to |-> << >>, topic |-> << >>]
      ELSE IF StartsWithCI(trimmed, <<"s", "t", "r", "e", "a", "m", ":">>)
        THEN LET rest == SubSeq(trimmed, 8, Len(trimmed))
                 colonIdx == IndexOf(rest, ":")
                 topic == SubSeq(rest, colonIdx + 1, Len(rest))
             IN  IF colonIdx = 0
                   THEN [type |-> "stream", to |-> rest, topic |-> NoTopic]
                   ELSE [type |-> "stream", to |-> SubSeq(rest, 1, colonIdx - 1),
                         topic |-> IF topic = << >> THEN NoTopic ELSE topic]
      ELSE IF \/ StartsWithCI(trimmed, <<"d", "m", ":">>)
              \/ StartsWithCI(trimmed, <<"u", "s", "e", "r", ":">>)
        THEN LET id == Trim(SubSeq(trimmed, IndexOf(trimmed, ":") + 1, Len(trimmed)))
             IN  [type |-> "direct", to |-> JsonIdArray(id), topic |-> << >>]
      ELSE [type |-> "stream", to |-> trimmed, topic |-> NoTopic]

TargetInputs ==
  [op : {"target"}, kind : {"stream"}, name : ServerNames, topic : ServerNames,
   id : {0}, stage : {"in"}, raw : {<< >>}, out : {<< >>}]
  \cup
  [op : {"target"}, kind : {"dm"}, name : {<< >>}, topic : {<< >>},
   id : TargetUserIds, stage : {"in"}, raw : {<< >>}, out : {<< >>}]

InitTarget ==
  /\ DispatchIdle /\ LoopIdle /\ PolicyIdle
  /\ now = 0 /\ recentIds = << >> /\ dd = DdInit(<<PolicyAccountId, 1>>)
  /\ pf \in TargetInputs

\* monitor.ts:200-204  the monitor builds the target string
BuildTarget ==
  /\ pf.op = "target" /\ pf.stage = "in"
  /\ pf' = [pf EXCEPT !.stage = "built",
                      !.raw = IF pf.kind = "dm" THEN DmTarget(pf.id)
                              ELSE StreamTarget(pf.name, pf.topic)]
  /\ UNCHANGED notPfVars

\* send.ts:76  sendZulipMessage parses the target it was given
ParseTarget ==
  /\ pf.op = "target" /\ pf.stage = "built"
  /\ pf' = [pf EXCEPT !.stage = "parsed", !.out = parseZulipTarget(pf.raw)]
  /\ UNCHANGED notPfVars

NextTarget == BuildTarget \/ ParseTarget

SpecTarget == InitTarget /\ [][NextTarget]_vars

\* C18 as stated: the target built for stream name n and topic t parses to a
\* stream message to exactly n with exactly topic t, and the target built
\* for sender id u parses to a direct message to exactly user u.
C18_TargetRoundTrip ==
  (pf.op = "target" /\ pf.stage = "parsed") =>
    IF pf.kind = "stream"
      THEN /\ pf.out.type = "stream"
           /\ pf.out.to = pf.name
           /\ pf.out.topic = pf.topic
      ELSE /\ pf.out.type = "direct"
           /\ pf.out.to = <<"[">> \o NatToStr(pf.id) \o <<"]">>

\* ------------------------------------------------------------------------
\* One reply payload from the chunker to the transport
\* (monitor.ts:346-352, send.ts:77, 99-106).  pf follows one payload:
\*   text, limit   the payload's text (after the table conversion) and the
\*                 chunk limit, the text longer than the limit
\*   chunks        what chunkMarkdownTextWithMode returned
\*   i             the chunks the for loop has passed
\*   sent          the contents submitted to the transport, in order
\*   stage         "in", "sending", "ok" (the loop ended), "failed" (it threw)
\* The transport accepts every send here.
\* ------------------------------------------------------------------------
TextChars == {"a", "b", " "}

\* payload texts: longer than one character, a word at either end
PayloadTexts ==
  {x \in UNION {[1..k -> TextChars] : k \in 2..MaxTextLen} : Trim(x) = x}

RECURSIVE Flatten(_)
\* the concatenation of a sequence of strings
Flatten(ss) == IF ss = << >> THEN << >> ELSE Head(ss) \o Flatten(Tail(ss))

RECURSIVE Splits(_, _, _)
\* the lists of at most k chunks, none longer than the limit (an empty one
\* allowed), whose concatenation is the text
Splits(text, limit, k) ==
  IF text = << >> THEN {<< >>}
  ELSE IF k = 0 THEN {}
  ELSE UNION { { <<SubSeq(text, 1, j)>> \o r :
                   r \in Splits(SubSeq(text, j + 1, Len(text)), limit, k - 1) } :
               j \in 0..Min(limit, Len(text)) }

\* core.channel.text.chunkMarkdownTextWithMode, by its contract: any list of
\* chunks, none longer than the limit, whose concatenation is the text
Chunkings(text, limit) == Splits(text, limit, Len(text) + 1)

ChunkInputs ==
  {x \in [op : {"chunk"}, text : PayloadTexts, limit : 1..(MaxTextLen - 1),
          chunks : {<< >>}, i : {0}, sent : {<< >>}, stage : {"in"}] :
     Len(x.text) > x.limit}

InitChunk ==
  /\ DispatchIdle /\ LoopIdle /\ PolicyIdle
  /\ now = 0 /\ recentIds = << >> /\ dd = DdInit(<<PolicyAccountId, 1>>)
  /\ pf \in ChunkInputs

\* monitor.ts:348-349  the chunker returns; chunks.length > 0 ? chunks : [text]
ChunkerReturns(cs) ==
  /\ pf.op = "chunk" /\ pf.stage = "in"
  /\ cs \in Chunkings(pf.text, pf.limit)
  /\ pf' = [pf EXCEPT !.stage = "sending",
                      !.chunks = IF Len(cs) > 0 THEN cs ELSE <<pf.text>>]
  /\ UNCHANGED notPfVars

\* send.ts:77, 99  let content = text?.trim() ?? ""; if (!content) throw
SendContent(chunk) == Trim(chunk)

\* monitor.ts:349-352, send.ts:77-106  one turn of the for loop: an empty
\* chunk is skipped; sendZulipMessage trims the chunk, throws when nothing
\* is left and submits the content otherwise
ChunkStep ==
  /\ pf.op = "chunk" /\ pf.stage = "sending"
  /\ IF pf.i = Len(pf.chunks) THEN pf' = [pf EXCEPT !.stage = "ok"]
     ELSE LET chunk == pf.chunks[pf.i + 1]
          IN  IF chunk = << >> THEN pf' = [pf EXCEPT !.i = @ + 1]
              ELSE IF SendContent(chunk) = << >>
                THEN pf' = [pf EXCEPT !.i = @ + 1, !.stage = "failed"]
              ELSE pf' = [pf EXCEPT !.i = @ + 1,
                                    !.sent = Append(@, SendContent(chunk))]
  /\ UNCHANGED notPfVars

NextChunk ==
  \/ \E cs \in (IF pf.stage = "in" THEN Chunkings(pf.text, pf.limit) ELSE {}) :
        ChunkerReturns(cs)
  \/ ChunkStep

SpecChunk == InitChunk /\ [][NextChunk]_vars

\* C19 as stated: for a payload longer than the chunk limit, once its
\* delivery has ended, every content submitted to the transport is no
\* longer than the limit and the contents submitted, concatenated in the
\* order of submission, are the payload's text.
C19_SubmittedChunksReproduceText ==
  (pf.op = "chunk" /\ pf.stage \in {"ok", "failed"}) =>
    /\ \A k \in 1..Len(pf.sent) : Len(pf.sent[k]) <= pf.limit
    /\ Flatten(pf.sent) = pf.text

\* ------------------------------------------------------------------------
\* The allow-list check  (monitor.ts:51-71, 119-127).  pf follows one check:
\*   sender   the sender's id, address and display name
\*   entries  the allow-list entries as configured or stored
\*   stage    "in", "normalized" (allowFrom holds normalizeAllowList of the
\*            entries), "done" (out holds what isSenderAllowed returned)
\* ------------------------------------------------------------------------
\* Senders: Al; one without an address whose display name is nothing but a
\* prefix; one whose name has blanks around it and capitals in the address;
\* one that no entry names.
AllowSenders ==
  { Al,
    [id |-> 10, email |-> << >>, name |-> <<"u", "s", "e", "r", ":">>],
    [id |-> 3, email |-> <<"A", "@">>, name |-> <<" ", "a", "l", " ">>],
    [id |-> 4, email |-> <<"b", "@">>, name |-> <<"B", "o">>] }

\* Entries as written by an operator: the wildcard, a display name with a
\* prefix in capitals and a blank in front, a numeric id, an address with a
\* prefix, a blank entry and a bare prefix.
AllowEntries ==
  { <<"*">>,
    <<" ", "U", "S", "E", "R", ":", "A", "L">>,
    <<"1", "0">>,
    <<"Z", "u", "l", "i", "p", ":", "a", "@">>,
    <<" ">>,
    <<"u", "s", "e", "r", ":">> }

AllowInputs ==
  [op : {"allow"}, sender : AllowSenders, entries : SUBSET AllowEntries,
   stage : {"in"}, allowFrom : {{}}, out : {FALSE}]

InitAllow ==
  /\ DispatchIdle /\ LoopIdle /\ PolicyIdle
  /\ now = 0 /\ recentIds = << >> /\ dd = DdInit(<<PolicyAccountId, 1>>)
  /\ pf \in AllowInputs

\* monitor.ts:119, 123-126  the entries are normalized into the allow-list
NormalizeEntries ==
  /\ pf.op = "allow" /\ pf.stage = "in"
  /\ pf' = [pf EXCEPT !.stage = "normalized",
                      !.allowFrom = normalizeAllowList(pf.entries)]
  /\ UNCHANGED notPfVars

\* monitor.ts:158, 171, 268  isSenderAllowed is called with the allow-list
CheckSender ==
  /\ pf.op = "allow" /\ pf.stage = "normalized"
  /\ pf' = [pf EXCEPT !.stage = "done",
                      !.out = isSenderAllowed(pf.sender, pf.allowFrom)]
  /\ UNCHANGED notPfVars

NextAllow == NormalizeEntries \/ CheckSender

SpecAllow == InitAllow /\ [][NextAllow]_vars

\* the normalized form of an identity, in the words of the specification:
\* lowercased and trimmed, then without a recognized prefix
NormalForm(str) ==
  LET t == Trim(ToLower(str))
  IN  IF Len(t) >= 6 /\ SubSeq(t, 1, 6) = <<"z", "u", "l", "i", "p", ":">>
        THEN SubSeq(t, 7, Len(t))
      ELSE IF Len(t) >= 5 /\ SubSeq(t, 1, 5) = <<"u", "s", "e", "r", ":">>
        THEN SubSeq(t, 6, Len(t))
      ELSE t

\* C30: isSenderAllowed returns true exactly when the allow-list is not
\* empty and holds "*" or the normalized form of the sender's id, address
\* or display name; for an empty allow-list it returns false.  The
\* allow-list holds the normalized forms of its entries, none of them empty.
C30_AllowedIffListed ==
  (pf.op = "allow" /\ pf.stage = "done") =>
    /\ pf.out <=>
          /\ pf.allowFrom # {}
          /\ \/ <<"*">> \in pf.allowFrom
             \/ NormalForm(NatToStr(pf.sender.id)) \in pf.allowFrom
             \/ NormalForm(pf.sender.email) \in pf.allowFrom
             \/ NormalForm(pf.sender.name) \in pf.allowFrom
    /\ pf.allowFrom = {} => ~pf.out
    /\ pf.allowFrom = {NormalForm(e) : e \in pf.entries} \ {<< >>}

\* C30 witness: the sender whose name is " al " was found in an allow-list
\* without wildcard whose only entry that names anybody is " USER:AL".
C30_Witness ==
  /\ pf.op = "allow" /\ pf.stage = "done" /\ pf.out
  /\ pf.sender.id = 3
  /\ pf.entries = {<<" ", "U", "S", "E", "R", ":", "A", "L">>, <<" ">>}
  /\ pf.allowFrom = {<<"a", "l">>}

====
